---- MODULE Spec2Model ----
(***************************************************************************)
(* Model of the dhis2eo download adapters (ERA5-Land hourly, CORDEX daily, *)
(* TIGGE, SEAS5, WorldPop) with their file cache and remote job polling,   *)
(* and of the pure reformatting functions of dhis2eo.integrations.         *)
(***************************************************************************)
EXTENDS Integers, Sequences, FiniteSets, TLC

VARIABLES
    adapter,      \* which adapter's public function is being called
    today,        \* date.today() as seen by the call
    args,         \* the call's arguments: start, end, overwrite, models
    run,          \* number of the current call (a rerun after an interruption is run + 1)
    pc,           \* position of the calling thread
    periods,      \* the periods the submit/download loop iterates over
    idx,          \* loop position in periods
    files,        \* local list `files`
    request_ids,  \* local list `request_ids`
    results,      \* list of (filepath, request_id) pairs
    fs,           \* the files under dirname: state and writing run of each path
    fs0,          \* fs as it was when the current call started
    jobs,         \* remote jobs of the datastore service, by request id
    pool,         \* ThreadPoolExecutor work items, by request id
    cur,          \* the synchronous download / write in progress
    requests,     \* every remote request made: (run, file)
    lastPoll,     \* what the last polling loop iteration observed and did
    returned,     \* the list of file paths the last finished call returned
    call          \* a call of a pure function: name, argument, result

vars == <<adapter, today, args, run, pc, periods, idx, files, request_ids,
          results, fs, fs0, jobs, pool, cur, requests, lastPoll, returned, call>>

dlvars == <<adapter, today, args, run, pc, periods, idx, files, request_ids,
            results, fs, fs0, jobs, pool, cur, requests, lastPoll, returned>>

\* ---------------------------------------------------------------- bounds
MaxPeriods == 2
MaxRuns == 2

\* ----------------------------------------------------------- program constants
max_downloads == 5
Era5LagDays == 7
EcmwfLagDays == 3

None == 0
NoCall == [fn |-> "none"]
NoCur == [phase |-> "none"]
NoPoll == [kind |-> "none"]

\* ------------------------------------------------------------------ dates
IsLeap(y) == (y % 4 = 0 /\ y % 100 # 0) \/ y % 400 = 0

monthrange(y, m) ==
    IF m \in {4, 6, 9, 11} THEN 30
    ELSE IF m = 2 THEN (IF IsLeap(y) THEN 29 ELSE 28)
    ELSE 31

Date(y, m, d) == [year |-> y, month |-> m, day |-> d]

PrevDay(dt) ==
    IF dt.day > 1 THEN Date(dt.year, dt.month, dt.day - 1)
    ELSE IF dt.month > 1 THEN Date(dt.year, dt.month - 1, monthrange(dt.year, dt.month - 1))
    ELSE Date(dt.year - 1, 12, 31)

RECURSIVE timedelta_sub(_, _)
timedelta_sub(dt, n) == IF n = 0 THEN dt ELSE timedelta_sub(PrevDay(dt), n - 1)

\* Python tuple comparison on (year, month)
TupleLT(a, b) == a[1] < b[1] \/ (a[1] = b[1] /\ a[2] < b[2])
TupleGE(a, b) == ~TupleLT(a, b)

\* utils/time.py iter_months: nested loops over years and months 1..12
AllYearMonths(start_year, end_year) ==
    IF end_year < start_year THEN << >>
    ELSE [k \in 1..(12 * (end_year - start_year + 1)) |->
            <<start_year + ((k - 1) \div 12), ((k - 1) % 12) + 1>>]

\* the end month is left out
iter_months_exclusive(start_year, start_month, end_year, end_month) ==
    SelectSeq(AllYearMonths(start_year, end_year),
              LAMBDA p : ~TupleLT(p, <<start_year, start_month>>)
                         /\ TupleLT(p, <<end_year, end_month>>))

iter_months(start_year, start_month, end_year, end_month) ==
    SelectSeq(AllYearMonths(start_year, end_year),
              LAMBDA p : ~TupleLT(p, <<start_year, start_month>>)
                         /\ ~TupleLT(<<end_year, end_month>>, p))

\* str(month).zfill(2) as two decimal digits
Zfill2(n) == IF n < 10 THEN <<0, n>> ELSE <<n \div 10, n % 10>>

\* f'{prefix}_{year}-{str(month).zfill(2)}.nc'
MonthSaveFile(p) ==
    [dirname |-> "dirname", prefix |-> "prefix", year |-> p[1], mm |-> Zfill2(p[2]), ext |-> "nc"]

SeqToSet(s) == {s[i] : i \in 1..Len(s)}

\* --------------------------------------------------------------- file system
Absent == [st |-> "absent", gen |-> 0]
\* the cache check never finds the file
ExistsNever(f) == FALSE
Exists(f) == fs[f].st # "absent"

\* ------------------------------------------------------- ERA5-Land hourly
Era5LastUpdated == timedelta_sub(today, Era5LagDays)

\* the lag is forgotten: compared with the current month
Era5IncompleteNoLag(p) == TupleGE(p, <<today.year, today.month>>)
Era5Incomplete(p) == TupleGE(p, <<Era5LastUpdated.year, Era5LastUpdated.month>>)

\* one iteration of the loop of submit()
Era5Submit ==
    /\ adapter = "era5" /\ pc = "submit" /\ idx <= Len(periods)
    /\ LET p == periods[idx]
           save_path == MonthSaveFile(p)
           rid == Cardinality(DOMAIN jobs) + 1
       IN  IF Era5Incomplete(p)
           THEN UNCHANGED <<files, request_ids, jobs, requests>>
           ELSE /\ files' = Append(files, save_path)
                /\ IF args.overwrite = FALSE /\ Exists(save_path)
                   THEN /\ request_ids' = Append(request_ids, None)
                        /\ UNCHANGED <<jobs, requests>>
                   ELSE /\ request_ids' = Append(request_ids, rid)
                        /\ jobs' = [r \in DOMAIN jobs \cup {rid} |->
                                      IF r = rid THEN [file |-> save_path, ready |-> FALSE, run |-> run]
                                      ELSE jobs[r]]
                        /\ requests' = requests \cup {[run |-> run, file |-> save_path]}
    /\ idx' = idx + 1
    /\ UNCHANGED <<adapter, today, args, run, pc, periods, results, fs, fs0, pool,
                   cur, lastPoll, returned, call>>

Zip(fl, rl) == [i \in 1..Len(fl) |-> [file |-> fl[i], rid |-> rl[i]]]

Remaining(res) == SelectSeq([i \in 1..Len(res) |-> [i |-> i, file |-> res[i].file, rid |-> res[i].rid]],
                            LAMBDA e : e.rid # None)

\* every remaining job is taken as ready
ReadyAll(rem) == rem
Ready(rem) == SelectSeq(rem, LAMBDA e : jobs[e.rid].ready)

\* the request id is left in place
ClearRequestIdNot(res, i, filepath) == res

\* results[i] = (filepath, None)
ClearRequestId(res, i, filepath) == [res EXCEPT ![i] = [file |-> filepath, rid |-> None]]

Filepaths(res) == [i \in 1..Len(res) |-> res[i].file]

\* submit() returns; download() counts total_downloads and enters the loop or returns
Era5SubmitDone ==
    /\ adapter = "era5" /\ pc = "submit" /\ idx > Len(periods)
    /\ results' = Zip(files, request_ids)
    /\ IF Len(Remaining(results')) > 0
       THEN pc' = "poll" /\ UNCHANGED returned
       ELSE pc' = "returned" /\ returned' = Filepaths(results')
    /\ UNCHANGED <<adapter, today, args, run, periods, idx, files, request_ids, fs, fs0,
                   jobs, pool, cur, requests, lastPoll, call>>

\* one iteration of the while loop of download(); pool maps each request id given
\* to multi_downloader.submit to its work item, "again" marking a repeated submit
Era5Poll ==
    /\ adapter = "era5" /\ pc = "poll"
    /\ LET remaining == Remaining(results)
           ready == Ready(remaining)
       IN  IF Len(remaining) > 0
           THEN IF Len(ready) > 0
                THEN LET e == ready[1]
                     IN  /\ pool' = [r \in DOMAIN pool \cup {e.rid} |->
                                       IF r = e.rid
                                       THEN [file |-> e.file, st |-> "queued",
                                             again |-> e.rid \in DOMAIN pool]
                                       ELSE pool[r]]
                         /\ results' = ClearRequestId(results, e.i, e.file)
                         /\ lastPoll' = [kind |-> "dispatch", rid |-> e.rid, file |-> e.file,
                                         wasReady |-> jobs[e.rid].ready,
                                         ready |-> {x.rid : x \in SeqToSet(ready)}]
                         /\ UNCHANGED pc
                ELSE /\ lastPoll' = [kind |-> "sleep",
                                     ready |-> {r \in {x.rid : x \in SeqToSet(remaining)} : jobs[r].ready}]
                     /\ UNCHANGED <<pool, results, pc>>
           ELSE /\ pc' = "shutdown"
                /\ lastPoll' = [kind |-> "exit"]
                /\ UNCHANGED <<pool, results>>
    /\ UNCHANGED <<adapter, today, args, run, periods, idx, files, request_ids, fs, fs0,
                   jobs, cur, requests, returned, call>>

\* the pool is shut down without waiting for its work items
Era5ReturnNoWait ==
    /\ adapter = "era5" /\ pc = "shutdown"
    /\ pc' = "returned"
    /\ returned' = Filepaths(results)
    /\ UNCHANGED <<adapter, today, args, run, periods, idx, files, request_ids, results,
                   fs, fs0, jobs, pool, cur, requests, lastPoll, call>>

\* multi_downloader.shutdown(wait=True) returns once every work item has run
Era5Return ==
    /\ adapter = "era5" /\ pc = "shutdown"
    /\ \A r \in DOMAIN pool : pool[r].st = "done"
    /\ pc' = "returned"
    /\ returned' = Filepaths(results)
    /\ UNCHANGED <<adapter, today, args, run, periods, idx, files, request_ids, results,
                   fs, fs0, jobs, pool, cur, requests, lastPoll, call>>

\* a pool worker takes a queued work item and download_to_path starts writing the target
PoolStart ==
    /\ adapter = "era5" /\ pc \in {"poll", "shutdown"}
    /\ Cardinality({r \in DOMAIN pool : pool[r].st = "running"}) < max_downloads
    /\ \E r \in DOMAIN pool :
        /\ pool[r].st = "queued"
        /\ pool' = [pool EXCEPT ![r].st = "running"]
        /\ fs' = [fs EXCEPT ![pool[r].file] = [st |-> "partial", gen |-> run]]
    /\ UNCHANGED <<adapter, today, args, run, pc, periods, idx, files, request_ids, results,
                   fs0, jobs, cur, requests, lastPoll, returned, call>>

\* remote.download(filepath) finishes
PoolFinish ==
    /\ adapter = "era5" /\ pc \in {"poll", "shutdown"}
    /\ \E r \in DOMAIN pool :
        /\ pool[r].st = "running"
        /\ pool' = [pool EXCEPT ![r].st = "done"]
        /\ fs' = [fs EXCEPT ![pool[r].file] = [st |-> "complete", gen |-> run]]
    /\ UNCHANGED <<adapter, today, args, run, pc, periods, idx, files, request_ids, results,
                   fs0, jobs, cur, requests, lastPoll, returned, call>>

\* the remote service finishes a job: results_ready becomes true
RemoteReady ==
    /\ pc \in {"submit", "poll"}
    /\ \E r \in DOMAIN jobs :
        /\ jobs[r].run = run /\ ~jobs[r].ready
        /\ jobs' = [jobs EXCEPT ![r].ready = TRUE]
    /\ UNCHANGED <<adapter, today, args, run, pc, periods, idx, files, request_ids, results,
                   fs, fs0, pool, cur, requests, lastPoll, returned, call>>

StartPc == IF adapter \in {"era5", "cordex"} THEN "submit" ELSE "loop"

\* the process is interrupted (killed): its threads stop, files stay as they are
Interrupt ==
    /\ pc \in {"submit", "poll", "shutdown", "download", "loop", "write"}
    /\ run < MaxRuns
    /\ pc' = "interrupted"
    /\ pool' = << >>
    /\ cur' = NoCur
    /\ UNCHANGED <<adapter, today, args, run, periods, idx, files, request_ids, results,
                   fs, fs0, jobs, requests, lastPoll, returned, call>>

\* the same call is made again with overwrite=False
Rerun ==
    /\ pc = "interrupted"
    /\ run' = run + 1
    /\ args' = [args EXCEPT !.overwrite = FALSE]
    /\ pc' = StartPc
    /\ idx' = 1
    /\ files' = << >> /\ request_ids' = << >> /\ results' = << >>
    /\ fs0' = fs
    /\ lastPoll' = NoPoll
    /\ returned' = << >>
    /\ UNCHANGED <<adapter, today, periods, fs, jobs, pool, cur, requests, call>>

\* ------------------------------------------------------------ CORDEX daily
SKIP_RCMS == {<<"i","c","t","p","_","r","e","g","c","m","4","_","7">>}
ALLOWED_START_YEARS == [k \in 1..18 |-> 2006 + 5 * (k - 1)]
ALLOWED_END_YEARS == [k \in 1..18 |-> 2010 + 5 * (k - 1)]

LowerChar(c) ==
    CASE c = "I" -> "i" [] c = "C" -> "c" [] c = "T" -> "t" [] c = "P" -> "p"
      [] c = "R" -> "r" [] c = "M" -> "m" [] c = "G" -> "g" [] c = "E" -> "e"
      [] c = "S" -> "s" [] c = "O" -> "o" [] c = "N" -> "n" [] c = "A" -> "a"
      [] OTHER -> c

\* name.replace('-', '_').lower()
model_name_to_stub(name) ==
    [i \in 1..Len(name) |-> LowerChar(IF name[i] = "-" THEN "_" ELSE name[i])]

ZipLen(a, b) == IF Len(a) < Len(b) THEN Len(a) ELSE Len(b)

\* zip(start_years, end_years) of submit()
CordexBlocks(start_year, end_year) ==
    LET start_years == SelectSeq(ALLOWED_START_YEARS, LAMBDA y : start_year <= y /\ y <= end_year)
        end_years == SelectSeq(ALLOWED_END_YEARS, LAMBDA y : start_year <= y /\ y <= end_year)
    IN  [k \in 1..ZipLen(start_years, end_years) |-> <<start_years[k], end_years[k]>>]

RECURSIVE Flatten(_)
Flatten(ss) == IF ss = << >> THEN << >> ELSE Head(ss) \o Flatten(Tail(ss))

\* the (model, year block) pairs visited by the nested loops of submit(), in order
CordexPeriods(models, start_year, end_year) ==
    LET blocks == CordexBlocks(start_year, end_year)
    IN  Flatten([m \in 1..Len(models) |->
                    [k \in 1..Len(blocks) |-> [model |-> models[m], block |-> blocks[k]]]])

\* f'{prefix}_{gcm_model}_{rcm_model}_{start_year}-{end_year}.nc'
CordexOutPath(p) ==
    [dirname |-> "dirname", prefix |-> "prefix", gcm |-> p.model.gcm, rcm |-> p.model.rcm,
     start_year |-> p.block[1], end_year |-> p.block[2], ext |-> "nc"]

\* one iteration of the inner loop of submit() (a model in SKIP_RCMS submits nothing)
CordexSubmit ==
    /\ adapter = "cordex" /\ pc = "submit" /\ idx <= Len(periods)
    /\ LET p == periods[idx]
           out_path == CordexOutPath(p)
           rid == Cardinality(DOMAIN jobs) + 1
       IN  IF model_name_to_stub(p.model.rcm) \in SKIP_RCMS
           THEN UNCHANGED <<files, request_ids, jobs, requests>>
           ELSE /\ files' = Append(files, out_path)
                /\ IF args.overwrite = FALSE /\ Exists(out_path)
                   THEN /\ request_ids' = Append(request_ids, None)
                        /\ UNCHANGED <<jobs, requests>>
                   ELSE /\ request_ids' = Append(request_ids, rid)
                        /\ jobs' = [r \in DOMAIN jobs \cup {rid} |->
                                      IF r = rid THEN [file |-> out_path, ready |-> FALSE, run |-> run]
                                      ELSE jobs[r]]
                        /\ requests' = requests \cup {[run |-> run, file |-> out_path]}
    /\ idx' = idx + 1
    /\ UNCHANGED <<adapter, today, args, run, pc, periods, results, fs, fs0, pool,
                   cur, lastPoll, returned, call>>

\* submit() returns; get() counts total_downloads and enters the loop or returns
CordexSubmitDone ==
    /\ adapter = "cordex" /\ pc = "submit" /\ idx > Len(periods)
    /\ results' = Zip(files, request_ids)
    /\ IF Len(Remaining(results')) > 0
       THEN pc' = "poll" /\ UNCHANGED returned
       ELSE pc' = "returned" /\ returned' = Filepaths(results')
    /\ UNCHANGED <<adapter, today, args, run, periods, idx, files, request_ids, fs, fs0,
                   jobs, pool, cur, requests, lastPoll, call>>

\* one iteration of the while loop of get(), up to the call of download_to_path
CordexPoll ==
    /\ adapter = "cordex" /\ pc = "poll"
    /\ LET remaining == Remaining(results)
           ready == Ready(remaining)
       IN  IF Len(remaining) > 0
           THEN IF Len(ready) > 0
                THEN LET e == ready[1]
                     IN  /\ pc' = "download"
                         /\ cur' = [phase |-> "zip", i |-> e.i, file |-> e.file, rid |-> e.rid]
                         /\ lastPoll' = [kind |-> "dispatch", rid |-> e.rid, file |-> e.file,
                                         wasReady |-> jobs[e.rid].ready,
                                         ready |-> {x.rid : x \in SeqToSet(ready)}]
                         /\ UNCHANGED returned
                ELSE /\ lastPoll' = [kind |-> "sleep",
                                     ready |-> {r \in {x.rid : x \in SeqToSet(remaining)} : jobs[r].ready}]
                     /\ UNCHANGED <<pc, cur, returned>>
           ELSE /\ pc' = "returned"
                /\ returned' = Filepaths(results)
                /\ lastPoll' = [kind |-> "exit"]
                /\ UNCHANGED cur
    /\ UNCHANGED <<adapter, today, args, run, periods, idx, files, request_ids, results,
                   fs, fs0, jobs, pool, requests, call>>

\* download_to_path: the zip file is downloaded, open(filepath, "wb") creates the target
CordexDownloadZip ==
    /\ adapter = "cordex" /\ pc = "download" /\ cur.phase = "zip"
    /\ cur' = [cur EXCEPT !.phase = "extract"]
    /\ fs' = [fs EXCEPT ![cur.file] = [st |-> "partial", gen |-> run]]
    /\ UNCHANGED <<adapter, today, args, run, pc, periods, idx, files, request_ids, results,
                   fs0, jobs, pool, requests, lastPoll, returned, call>>

\* download_to_path: copyfileobj finishes, the zip is unlinked; get() clears the request id
CordexDownloadDone ==
    /\ adapter = "cordex" /\ pc = "download" /\ cur.phase = "extract"
    /\ fs' = [fs EXCEPT ![cur.file] = [st |-> "complete", gen |-> run]]
    /\ results' = ClearRequestId(results, cur.i, cur.file)
    /\ cur' = NoCur
    /\ pc' = "poll"
    /\ UNCHANGED <<adapter, today, args, run, periods, idx, files, request_ids,
                   fs0, jobs, pool, requests, lastPoll, returned, call>>

\* ------------------------------------------------------------ TIGGE / SEAS5
EcmwfLastUpdated == timedelta_sub(today, EcmwfLagDays)

\* month_is_complete is forgotten
EcmwfUseCacheAlways(save_path, month_is_complete) ==
    args.overwrite = FALSE /\ Exists(save_path)

\* overwrite is False and save_path.exists() and month_is_complete
EcmwfUseCache(save_path, month_is_complete) ==
    args.overwrite = FALSE /\ Exists(save_path) /\ month_is_complete

\* Python's ordering of datetime.date values
DateLE(a, b) ==
    \/ a.year < b.year
    \/ a.year = b.year /\ a.month < b.month
    \/ a.year = b.year /\ a.month = b.month /\ a.day <= b.day

\* the whole month is requested
todate_month_end(year, month, last_updated_date) == Date(year, month, monthrange(year, month))

\* min(date(year, month, days_in_month), last_updated_date)
todate(year, month, last_updated_date) ==
    IF DateLE(Date(year, month, monthrange(year, month)), last_updated_date)
    THEN Date(year, month, monthrange(year, month))
    ELSE last_updated_date

\* fetch_month: the "date" parameter of the request, fromdate/to/todate
fetch_month(year, month, last_updated_date) ==
    [fromdate |-> Date(year, month, 1), todate |-> todate(year, month, last_updated_date)]

\* one iteration of the loop of download(), up to the start of ds.to_netcdf(save_path);
\* cur.request is the date range that fetch_month asked for
EcmwfDownloadStep(a) ==
    /\ adapter = a /\ pc = "loop" /\ idx <= Len(periods)
    /\ LET p == periods[idx]
           month_is_complete == ~TupleGE(p, <<EcmwfLastUpdated.year, EcmwfLastUpdated.month>>)
           save_path == MonthSaveFile(p)
       IN  /\ files' = Append(files, save_path)
           /\ IF EcmwfUseCache(save_path, month_is_complete)
              THEN /\ idx' = idx + 1
                   /\ UNCHANGED <<pc, cur, fs, requests>>
              ELSE /\ requests' = requests \cup {[run |-> run, file |-> save_path]}
                   /\ pc' = "write"
                   /\ cur' = [phase |-> "write", file |-> save_path,
                              request |-> fetch_month(p[1], p[2], EcmwfLastUpdated)]
                   /\ fs' = [fs EXCEPT ![save_path] = [st |-> "partial", gen |-> run]]
                   /\ UNCHANGED idx
    /\ UNCHANGED <<adapter, today, args, run, periods, request_ids, results, fs0,
                   jobs, pool, lastPoll, returned, call>>

TiggeDownload == EcmwfDownloadStep("tigge")

Seas5Download == EcmwfDownloadStep("seas5")

\* ------------------------------------------------------------ WorldPop yearly
\* f'{prefix}_{year}.nc'
YearSaveFile(year) == [dirname |-> "dirname", prefix |-> "prefix", year |-> year, ext |-> "nc"]

\* range(int(start), int(end)+1)
YearRange(start, end) == IF end < start THEN << >> ELSE [k \in 1..(end - start + 1) |-> start + k - 1]

skip_existing == ~args.overwrite

WorldpopDownload ==
    /\ adapter = "worldpop" /\ pc = "loop" /\ idx <= Len(periods)
    /\ LET year == periods[idx]
           save_path == YearSaveFile(year)
       IN  /\ files' = Append(files, save_path)
           /\ IF skip_existing /\ Exists(save_path)
              THEN /\ idx' = idx + 1
                   /\ UNCHANGED <<pc, cur, fs, requests>>
              ELSE /\ requests' = requests \cup {[run |-> run, file |-> save_path]}
                   /\ pc' = "write"
                   /\ cur' = [phase |-> "write", file |-> save_path]
                   /\ fs' = [fs EXCEPT ![save_path] = [st |-> "partial", gen |-> run]]
                   /\ UNCHANGED idx
    /\ UNCHANGED <<adapter, today, args, run, periods, request_ids, results, fs0,
                   jobs, pool, lastPoll, returned, call>>

\* ds.to_netcdf(save_path) finishes; the loop moves to the next period
WriteDone ==
    /\ pc = "write" /\ cur.phase = "write"
    /\ fs' = [fs EXCEPT ![cur.file] = [st |-> "complete", gen |-> run]]
    /\ cur' = NoCur
    /\ pc' = "loop"
    /\ idx' = idx + 1
    /\ UNCHANGED <<adapter, today, args, run, periods, files, request_ids, results, fs0,
                   jobs, pool, requests, lastPoll, returned, call>>

\* the loop is exhausted: return files
LoopReturn ==
    /\ pc = "loop" /\ idx > Len(periods)
    /\ pc' = "returned"
    /\ returned' = files
    /\ UNCHANGED <<adapter, today, args, run, periods, idx, files, request_ids, results,
                   fs, fs0, jobs, pool, cur, requests, lastPoll, call>>

\* ------------------------------------------------------------------ Init
BaseMonth == <<2024, 11>>
MonthIndex(p) == p[1] * 12 + (p[2] - 1)
MonthOfIndex(k) == <<k \div 12, (k % 12) + 1>>

StartMonths == {MonthOfIndex(MonthIndex(BaseMonth) + k) : k \in 0..4}
Todays == {Date(2025, 3, 7), Date(2025, 3, 8), Date(2025, 1, 3), Date(2025, 1, 4)}

MonthArgs ==
    {[start |-> s, end |-> MonthOfIndex(MonthIndex(s) + n - 1), overwrite |-> o, models |-> << >>] :
        s \in StartMonths, n \in 0..MaxPeriods, o \in BOOLEAN}

FileStates == {Absent, [st |-> "complete", gen |-> 0]}

InitCommon ==
    /\ run = 1 /\ pc = StartPc /\ idx = 1
    /\ files = << >> /\ request_ids = << >> /\ results = << >>
    /\ jobs = << >> /\ pool = << >> /\ cur = NoCur
    /\ requests = {} /\ lastPoll = NoPoll /\ returned = << >>
    /\ fs0 = fs
    /\ call = NoCall

InitEra5 ==
    /\ adapter = "era5"
    /\ today \in Todays
    /\ args \in MonthArgs
    /\ periods = iter_months(args.start[1], args.start[2], args.end[1], args.end[2])
    /\ fs \in [{MonthSaveFile(periods[i]) : i \in 1..Len(periods)} -> FileStates]
    /\ InitCommon

InitEcmwf ==
    /\ adapter \in {"tigge", "seas5"}
    /\ today \in Todays
    /\ args \in MonthArgs
    /\ periods = iter_months(args.start[1], args.start[2], args.end[1], args.end[2])
    /\ fs \in [{MonthSaveFile(periods[i]) : i \in 1..Len(periods)} -> FileStates]
    /\ InitCommon

GERICS == [gcm |-> <<"M","O","H","C">>, rcm |-> <<"G","E","R","I","C","S","-","R","E","M","O","2","0","1","5">>]
ICTP == [gcm |-> <<"M","O","H","C">>, rcm |-> <<"I","C","T","P","-","R","e","g","C","M","4","-","7">>]

CordexArgs ==
    {[start |-> <<s, 1>>, end |-> <<e, 1>>, overwrite |-> o, models |-> ms] :
        s \in {2006, 2008}, e \in {2010, 2015}, o \in BOOLEAN,
        ms \in {<<GERICS>>, <<ICTP, GERICS>>}}

InitCordex ==
    /\ adapter = "cordex"
    /\ today = Date(2025, 3, 8)
    /\ args \in CordexArgs
    /\ periods = CordexPeriods(args.models, args.start[1], args.end[1])
    /\ fs \in [{CordexOutPath(periods[i]) : i \in 1..Len(periods)} -> FileStates]
    /\ InitCommon

WorldpopArgs ==
    {[start |-> <<s, 1>>, end |-> <<s + n - 1, 1>>, overwrite |-> o, models |-> << >>] :
        s \in {2015, 2016}, n \in 0..MaxPeriods, o \in BOOLEAN}

InitWorldpop ==
    /\ adapter = "worldpop"
    /\ today = Date(2025, 3, 8)
    /\ args \in WorldpopArgs
    /\ periods = YearRange(args.start[1], args.end[1])
    /\ fs \in [{YearSaveFile(periods[i]) : i \in 1..Len(periods)} -> FileStates]
    /\ InitCommon

Init == InitEra5 \/ InitCordex \/ InitEcmwf \/ InitWorldpop

Next ==
    \/ Era5Submit \/ Era5SubmitDone \/ Era5Poll \/ Era5Return
    \/ PoolStart \/ PoolFinish \/ RemoteReady
    \/ CordexSubmit \/ CordexSubmitDone \/ CordexPoll
    \/ CordexDownloadZip \/ CordexDownloadDone
    \/ TiggeDownload \/ Seas5Download \/ WorldpopDownload
    \/ WriteDone \/ LoopReturn
    \/ Interrupt \/ Rerun

Spec == Init /\ [][Next]_vars

\* no download call is in progress (the pure functions are being exercised)
InitIdle ==
    /\ adapter = "none" /\ today = Date(2025, 3, 8)
    /\ args = [start |-> <<2025, 1>>, end |-> <<2025, 1>>, overwrite |-> FALSE, models |-> << >>]
    /\ run = 1 /\ pc = "idle" /\ idx = 1 /\ periods = << >>
    /\ files = << >> /\ request_ids = << >> /\ results = << >>
    /\ fs = << >> /\ fs0 = << >>
    /\ jobs = << >> /\ pool = << >> /\ cur = NoCur
    /\ requests = {} /\ lastPoll = NoPoll /\ returned = << >>

\* ------------------------------------------------- integrations/pandas.py
\* A float is modelled by its exact decimal expansion: sign, integer part and the
\* fractional digits; NaN is a separate value.
Prec == 10
NaN == [kind |-> "nan"]
Float(neg, ip, frac) == [kind |-> "float", neg |-> neg, ip |-> ip, frac |-> frac]

\* pd.isna(value)
isna(value) == value.kind = "nan"

DigitChars == <<"0", "1", "2", "3", "4", "5", "6", "7", "8", "9">>
DigitChar(d) == DigitChars[d + 1]

RECURSIVE IntDigits(_)
IntDigits(n) == IF n < 10 THEN <<n>> ELSE Append(IntDigits(n \div 10), n % 10)

\* add one unit in the last place of a digit sequence
RECURSIVE IncDigits(_)
IncDigits(d) ==
    IF d = << >> THEN [ds |-> << >>, carry |-> 1]
    ELSE LET n == Len(d)
         IN  IF d[n] < 9 THEN [ds |-> [d EXCEPT ![n] = d[n] + 1], carry |-> 0]
             ELSE LET r == IncDigits(SubSeq(d, 1, n - 1))
                  IN  [ds |-> Append(r.ds, 0), carry |-> r.carry]

\* the ".10f" conversion: correct rounding (ties to even) to Prec fractional digits;
\* the sign is kept even when the magnitude rounds to zero
FixedPoint(value) ==
    LET f == value.frac
        kept == [i \in 1..Prec |-> IF i <= Len(f) THEN f[i] ELSE 0]
        rest == IF Len(f) > Prec THEN SubSeq(f, Prec + 1, Len(f)) ELSE << >>
        tail_nonzero == \E i \in 2..Len(rest) : rest[i] # 0
        up == /\ rest # << >>
              /\ \/ rest[1] > 5
                 \/ rest[1] = 5 /\ (tail_nonzero \/ kept[Prec] % 2 = 1)
        inc == IncDigits(kept)
    IN  IF up THEN [neg |-> value.neg, ip |-> value.ip + inc.carry, frac |-> inc.ds]
        ELSE [neg |-> value.neg, ip |-> value.ip, frac |-> kept]

\* f"{value:.10f}" as a sequence of characters
FormatFixed(value) ==
    LET x == FixedPoint(value)
        ipd == IntDigits(x.ip)
    IN  (IF x.neg THEN <<"-">> ELSE << >>)
        \o [i \in 1..Len(ipd) |-> DigitChar(ipd[i])]
        \o <<".">>
        \o [i \in 1..Prec |-> DigitChar(x.frac[i])]

\* str.rstrip(c)
RECURSIVE rstrip(_, _)
rstrip(str, c) ==
    IF str # << >> /\ str[Len(str)] = c THEN rstrip(SubSeq(str, 1, Len(str) - 1), c) ELSE str

format_value_for_dhis2(value) ==
    IF isna(value) THEN value
    ELSE rstrip(rstrip(FormatFixed(value), "0"), ".")

\* the call format_value_for_dhis2(value)
FormatValue ==
    /\ call.fn = "format_value_for_dhis2" /\ ~call.done
    /\ call' = [call EXCEPT !.done = TRUE, !.result = format_value_for_dhis2(call.arg)]
    /\ UNCHANGED dlvars

\* input floats: an integer part, some leading zero digits of the fraction and a
\* short tail of arbitrary digits, reaching past the last kept digit
MaxFracTail == 2
IntParts == {0, 9, 100}

Tails == UNION {[1..n -> 0..9] : n \in 0..MaxFracTail}

Floats ==
    {Float(neg, ip, [i \in 1..z |-> 0] \o t) :
        neg \in BOOLEAN, ip \in IntParts, z \in 0..(Prec + 1), t \in Tails}

InitFormat ==
    /\ InitIdle
    /\ \E v \in Floats \cup {NaN} :
        call = [fn |-> "format_value_for_dhis2", arg |-> v, done |-> FALSE, result |-> << >>]

SpecFormat == InitFormat /\ [][FormatValue]_vars

\* utils/time.py detect_period_type: a period string is modelled by its shape
\* (which of the regular expressions it matches) and its date fields
YEAR == "YEAR"
MONTH == "MONTH"
WEEK == "WEEK"
DAY == "DAY"
NoType == "None"

detect_period_type(str) ==
    IF str.form = "YYYY" THEN YEAR
    ELSE IF str.form \in {"YYYYMM", "YYYY-MM"} THEN MONTH
    ELSE IF str.form = "YYYY-Www" THEN WEEK
    ELSE IF str.form \in {"YYYYMMDD", "YYYY-MM-DD"} THEN DAY
    ELSE NoType

\* str(period_value).split(" ")[0]: the time of day after a space is dropped
DropTime(period_value) ==
    IF period_value.form = "YYYY-MM-DD HH:MM:SS" THEN [period_value EXCEPT !.form = "YYYY-MM-DD"]
    ELSE period_value

\* parse_period: the DHIS2 period code as digit groups, or NotImplementedError
parse_period(period_value) ==
    LET period_type == detect_period_type(DropTime(period_value))
    IN  IF period_type = DAY
        THEN [ok |-> TRUE,
              value |-> <<period_value.year, Zfill2(period_value.month), Zfill2(period_value.day)>>]
        ELSE IF period_type = MONTH
        THEN [ok |-> TRUE, value |-> <<period_value.year, Zfill2(period_value.month)>>]
        ELSE IF period_type = YEAR
        THEN [ok |-> TRUE, value |-> <<period_value.year>>]
        ELSE [ok |-> FALSE, exc |-> "NotImplementedError"]

\* the rows are kept as they are
NotNaAll(rows) == rows

\* df_subset[~pd.isna(df_subset["value"])]
NotNa(rows) == SelectSeq(rows, LAMBDA r : ~isna(r.value))

dataframe_to_dhis2_json(df, data_element_id, org_unit_col, period_col, value_col) ==
    LET df_subset == [i \in 1..Len(df) |->
                        [orgUnit |-> df[i][org_unit_col],
                         period |-> df[i][period_col],
                         value |-> df[i][value_col]]]
    IN  IF \E i \in 1..Len(df_subset) : ~parse_period(df_subset[i].period).ok
        THEN [kind |-> "raise", exc |-> "NotImplementedError"]
        ELSE LET parsed == [i \in 1..Len(df_subset) |->
                              [orgUnit |-> df_subset[i].orgUnit,
                               period |-> parse_period(df_subset[i].period).value,
                               value |-> df_subset[i].value,
                               dataElement |-> data_element_id]]
                 kept == NotNa(parsed)
                 data == [i \in 1..Len(kept) |->
                            [kept[i] EXCEPT !.value = format_value_for_dhis2(kept[i].value)]]
             IN  [kind |-> "return", value |-> [dataValues |-> data]]

\* the call dataframe_to_dhis2_json(df, "DE001", "org_unit", "period", "value");
\* df is the caller's frame, which the function only reads
DataframeToDhis2Json ==
    /\ call.fn = "dataframe_to_dhis2_json" /\ ~call.done
    /\ call' = [call EXCEPT !.done = TRUE,
                            !.result = dataframe_to_dhis2_json(call.df, "DE001", "org_unit", "period", "value")]
    /\ UNCHANGED dlvars

MaxRows == 2

JsonValues == {NaN, Float(FALSE, 0, <<0, 0, 0, 0, 8, 2, 4, 1, 4, 8>>), Float(FALSE, 42, <<5>>)}
JsonPeriods ==
    {[form |-> "YYYY-MM-DD", year |-> 2024, month |-> 1, day |-> 15],
     [form |-> "YYYY-MM", year |-> 2024, month |-> 1, day |-> 1],
     [form |-> "YYYY-Www", year |-> 2024, month |-> 1, day |-> 15]}

JsonRows ==
    {[org_unit |-> o, period |-> q, value |-> v, name |-> "n"] :
        o \in {"OU001", "OU002"}, q \in JsonPeriods, v \in JsonValues}

JsonFrames == UNION {[1..n -> JsonRows] : n \in 0..MaxRows}

InitJson ==
    /\ InitIdle
    /\ \E df \in JsonFrames :
        call = [fn |-> "dataframe_to_dhis2_json", arg |-> df, df |-> df, done |-> FALSE,
                result |-> [kind |-> "pending"]]

SpecJson == InitJson /\ [][DataframeToDhis2Json]_vars

\* --------------------------------------------------- integrations/chap.py
REQUIRED_RESERVED_FIELDS == <<"time_period", "location", "disease_cases">>
OPTIONAL_RESERVED_FIELDS == <<"population">>

\* A DataFrame is [columns |-> sequence of names, rows |-> sequence of functions
\* column -> cell]. A time period cell is modelled by its shape (which regular
\* expression it matches) and its fields.
Period(form, y, m, d, w) == [form |-> form, year |-> y, month |-> m, day |-> d, week |-> w]

Raise(exc) == [kind |-> "raise", exc |-> exc, value |-> "none", written |-> "nothing", warned |-> FALSE]

\* datetime.date.toordinal / isoweekday / isocalendar
DayOfYear(y, m, d) ==
    LET RECURSIVE Before(_)
        Before(k) == IF k = 0 THEN 0 ELSE monthrange(y, k) + Before(k - 1)
    IN  Before(m - 1) + d

Ordinal(y, m, d) ==
    365 * (y - 1) + ((y - 1) \div 4) - ((y - 1) \div 100) + ((y - 1) \div 400) + DayOfYear(y, m, d)

IsoWeekday(y, m, d) == ((Ordinal(y, m, d) - 1) % 7) + 1

WeeksInYear(y) == (DayOfYear(y, 12, 28) - IsoWeekday(y, 12, 28) + 10) \div 7

isocalendar(y, m, d) ==
    LET w == (DayOfYear(y, m, d) - IsoWeekday(y, m, d) + 10) \div 7
    IN  IF w < 1 THEN [year |-> y - 1, week |-> WeeksInYear(y - 1)]
        ELSE IF w > WeeksInYear(y) THEN [year |-> y + 1, week |-> 1]
        ELSE [year |-> y, week |-> w]

\* pd.to_datetime(..., errors="coerce") succeeds on a valid date-like string
ValidDate(v) ==
    /\ v.form \in {"YYYY-MM-DD", "YYYY-MM-DD HH:MM:SS"}
    /\ v.month \in 1..12 /\ v.day \in 1..monthrange(v.year, v.month)

\* date-like values are not parsed
NormalizeMonthlySliceOnly(v) ==
    IF v.form = "YYYYMM" THEN Period("YYYY-MM", v.year, v.month, 0, 0) ELSE v

\* _normalize_time_period, freq="monthly", element by element
NormalizeMonthly(v) ==
    LET sliced == IF v.form = "YYYYMM" THEN Period("YYYY-MM", v.year, v.month, 0, 0) ELSE v
    IN  IF sliced.form # "YYYY-MM" /\ ValidDate(sliced)
        THEN Period("YYYY-MM", sliced.year, sliced.month, 0, 0)
        ELSE sliced

\* _normalize_time_period: the normalized series, or ValueError
normalize_time_period(series, freq) ==
    IF freq = "monthly"
    THEN LET out == [i \in 1..Len(series) |-> NormalizeMonthly(series[i])]
         IN  IF \E i \in 1..Len(out) : out[i].form # "YYYY-MM"
             THEN [ok |-> FALSE, exc |-> "ValueError"]
             ELSE [ok |-> TRUE, value |-> out]
    ELSE IF freq = "weekly"
    THEN IF \A i \in 1..Len(series) : series[i].form = "YYYY-Www"
         THEN [ok |-> TRUE, value |-> series]
         ELSE IF \E i \in 1..Len(series) : ~ValidDate(series[i])
         THEN [ok |-> FALSE, exc |-> "ValueError"]
         ELSE [ok |-> TRUE,
               value |-> [i \in 1..Len(series) |->
                            LET iso == isocalendar(series[i].year, series[i].month, series[i].day)
                            IN  Period("YYYY-Www", iso.year, 0, 0, iso.week)]]
    ELSE [ok |-> FALSE, exc |-> "ValueError"]

\* the Monday of an ISO week, as a day number
WeekStart(v) ==
    Ordinal(v.year, 1, 4) - (IsoWeekday(v.year, 1, 4) - 1) + 7 * (v.week - 1)

\* only the year of a period is looked at
PeriodIndexOfYear(v, freq) == v.year

\* position of a normalized period on its time axis (months, or weeks)
PeriodIndexOf(v, freq) ==
    IF freq = "monthly" THEN v.year * 12 + (v.month - 1) ELSE WeekStart(v) \div 7

\* pd.PeriodIndex(..., freq="M") / pd.to_datetime(..., format="%G-W%V-%u") accept the value
ValidPeriod(v, freq) ==
    IF freq = "monthly" THEN v.month \in 1..12
    ELSE v.week \in 1..WeeksInYear(v.year)

\* the periods of all locations are judged together
validate_temporal_continuity_pooled(rows, freq) ==
    IF freq \notin {"monthly", "weekly"} THEN [ok |-> FALSE, exc |-> "ValueError"]
    ELSE IF rows = << >> THEN [ok |-> TRUE, gaps |-> {}]
    ELSE IF \E i \in 1..Len(rows) : ~ValidPeriod(rows[i].time_period, freq)
    THEN [ok |-> FALSE, exc |-> "ValueError"]
    ELSE LET all_periods == {PeriodIndexOf(rows[i].time_period, freq) : i \in 1..Len(rows)}
             lo == CHOOSE x \in all_periods : \A z \in all_periods : x <= z
             hi == CHOOSE x \in all_periods : \A z \in all_periods : x >= z
         IN  [ok |-> TRUE,
              gaps |-> IF (lo..hi) \ all_periods # {} THEN {rows[1].location} ELSE {}]

\* _validate_temporal_continuity: the locations that have a gap, or ValueError
validate_temporal_continuity(rows, freq) ==
    IF freq \notin {"monthly", "weekly"} THEN [ok |-> FALSE, exc |-> "ValueError"]
    ELSE IF rows = << >> THEN [ok |-> TRUE, gaps |-> {}]
    ELSE IF \E i \in 1..Len(rows) : ~ValidPeriod(rows[i].time_period, freq)
    THEN [ok |-> FALSE, exc |-> "ValueError"]
    ELSE LET locs == {rows[i].location : i \in 1..Len(rows)}
             periods_of(loc) == {PeriodIndexOf(rows[i].time_period, freq) :
                                    i \in {j \in 1..Len(rows) : rows[j].location = loc}}
             lo(S) == CHOOSE x \in S : \A z \in S : x <= z
             hi(S) == CHOOSE x \in S : \A z \in S : x >= z
             missing(loc) == (lo(periods_of(loc))..hi(periods_of(loc))) \ periods_of(loc)
         IN  [ok |-> TRUE,
              gaps |-> {loc \in locs : Cardinality(periods_of(loc)) > 1 /\ missing(loc) # {}}]

InSeq(x, l) == \E i \in 1..Len(l) : l[i] = x

\* the required keys are not checked
MissingKeysNone(column_map) == << >>

\* [k for k in REQUIRED_RESERVED_FIELDS if k not in column_map]
MissingKeys(column_map) ==
    SelectSeq(REQUIRED_RESERVED_FIELDS, LAMBDA k : k \notin DOMAIN column_map.map)

\* the mapped columns are not checked
MissingInputsNone(column_map, columns) == {}

\* [c for c in mapped_inputs if c not in df.columns]
MissingInputs(column_map, columns) ==
    {column_map.map[k] : k \in {x \in DOMAIN column_map.map : ~InSeq(column_map.map[x], columns)}}

\* df.rename(columns={column_map[k]: k}): the new name of a column
Renamed(c, column_map) ==
    IF \E k \in DOMAIN column_map.map : column_map.map[k] = c
    THEN CHOOSE k \in DOMAIN column_map.map : column_map.map[k] = c
    ELSE c

LocationRank(loc) == CASE loc = "A" -> 1 [] loc = "B" -> 2 [] OTHER -> 3

PeriodKey(v) == <<v.year, v.month, v.week>>

KeyLE(a, b) ==
    \/ a[1] < b[1]
    \/ a[1] = b[1] /\ a[2] < b[2]
    \/ a[1] = b[1] /\ a[2] = b[2] /\ a[3] <= b[3]

\* the rows are compared on time_period alone
RowLEPeriodOnly(r, q) == KeyLE(PeriodKey(r.time_period), PeriodKey(q.time_period))

RowLE(r, q) ==
    \/ LocationRank(r.location) < LocationRank(q.location)
    \/ r.location = q.location /\ KeyLE(PeriodKey(r.time_period), PeriodKey(q.time_period))

\* out.sort_values(["location", "time_period"]): a stable sort
RECURSIVE sort_values(_)
sort_values(rows) ==
    IF rows = << >> THEN << >>
    ELSE LET n == Len(rows)
             sorted == sort_values(SubSeq(rows, 1, n - 1))
             k == Cardinality({i \in 1..Len(sorted) : RowLE(sorted[i], rows[n])})
         IN  SubSeq(sorted, 1, k) \o <<rows[n]>> \o SubSeq(sorted, k + 1, Len(sorted))

\* only the first row is written
to_csv_head(columns, rows) ==
    [header |-> columns,
     lines |-> [i \in 1..(IF rows = << >> THEN 0 ELSE 1) |->
                    [j \in 1..Len(columns) |-> rows[i][columns[j]]]]]

\* out.to_csv(index=False): the header line and one line per row
to_csv(columns, rows) ==
    [header |-> columns,
     lines |-> [i \in 1..Len(rows) |-> [j \in 1..Len(columns) |-> rows[i][columns[j]]]]]

dataframe_to_chap_csv(df, column_map, opt) ==
    IF ~column_map.mapping THEN Raise("TypeError")
    ELSE IF MissingKeys(column_map) # << >> THEN Raise("KeyError")
    ELSE IF MissingInputs(column_map, df.columns) # {} THEN Raise("KeyError")
    ELSE
    LET kept_cols == SelectSeq(df.columns, LAMBDA c : ~InSeq(c, opt.drop_cols))
        out_cols == [j \in 1..Len(kept_cols) |-> Renamed(kept_cols[j], column_map)]
        renamed_rows == [i \in 1..Len(df.rows) |->
                            [c \in SeqToSet(out_cols) |->
                                df.rows[i][CHOOSE o \in SeqToSet(kept_cols) : Renamed(o, column_map) = c]]]
    IN
    IF ~InSeq("time_period", out_cols) THEN Raise("KeyError")
    ELSE
    LET norm == normalize_time_period([i \in 1..Len(renamed_rows) |-> renamed_rows[i].time_period],
                                      opt.freq)
    IN
    IF ~norm.ok THEN Raise(norm.exc)
    ELSE IF opt.continuity_policy \notin {"error", "warn", "ignore"} THEN Raise("ValueError")
    ELSE
    LET out_rows == [i \in 1..Len(renamed_rows) |->
                        [renamed_rows[i] EXCEPT !.time_period = norm.value[i]]]
        no_location == out_rows # << >> /\ ~InSeq("location", out_cols)
        check == IF opt.continuity_policy # "ignore" /\ ~no_location
                 THEN validate_temporal_continuity(out_rows, opt.freq)
                 ELSE [ok |-> TRUE, gaps |-> {}]
    IN
    IF opt.continuity_policy # "ignore" /\ no_location THEN Raise("KeyError")
    ELSE IF ~check.ok THEN Raise(check.exc)
    ELSE IF check.gaps # {} /\ opt.continuity_policy = "error" THEN Raise("ValueError")
    ELSE
    LET warned == check.gaps # {}
        reserved_present ==
            SelectSeq(REQUIRED_RESERVED_FIELDS, LAMBDA k : InSeq(k, out_cols))
            \o SelectSeq(OPTIONAL_RESERVED_FIELDS,
                         LAMBDA k : k \in DOMAIN column_map.map /\ InSeq(k, out_cols))
        covariates ==
            IF opt.value_cols # <<"None">> THEN opt.value_cols
            ELSE IF opt.include_other_cols
            THEN SelectSeq(out_cols, LAMBDA c : ~InSeq(c, reserved_present))
            ELSE << >>
        base_cols == <<"time_period", "location", "disease_cases">>
                     \o (IF InSeq("population", reserved_present) THEN <<"population">> ELSE << >>)
        ordered_cols == base_cols \o SelectSeq(covariates, LAMBDA c : ~InSeq(c, base_cols))
    IN
    IF opt.value_cols # <<"None">> /\ \E i \in 1..Len(opt.value_cols) : ~InSeq(opt.value_cols[i], out_cols)
    THEN Raise("KeyError")
    ELSE IF \E i \in 1..Len(ordered_cols) : ~InSeq(ordered_cols[i], out_cols)
    THEN Raise("KeyError")
    ELSE
    LET final_rows == IF opt.sort THEN sort_values(out_rows) ELSE out_rows
        csv == to_csv(ordered_cols, final_rows)
    IN  IF opt.output_path # "None"
        THEN [kind |-> "return", exc |-> "none", value |-> "None", written |-> csv, warned |-> warned]
        ELSE [kind |-> "return", exc |-> "none", value |-> csv, written |-> "nothing", warned |-> warned]

\* the call dataframe_to_chap_csv(df, column_map=..., **opt)
DataframeToChapCsv ==
    /\ call.fn = "dataframe_to_chap_csv" /\ ~call.done
    /\ call' = [call EXCEPT !.done = TRUE,
                            !.result = dataframe_to_chap_csv(call.df, call.column_map, call.opt)]
    /\ UNCHANGED dlvars

\* input frames, column maps and options
MaxChapRows == 2

NamedColumns ==
    <<"org_id", "period", "dengue_cases", "population", "temp", "precip", "org_name">>
LiteralColumns == <<"location", "time_period", "disease_cases", "temp">>

NamedRow(loc, per) ==
    [org_id |-> loc, period |-> per, dengue_cases |-> 1, population |-> 1000,
     temp |-> 25, precip |-> 12, org_name |-> "name"]

LiteralRow(loc, per) == [location |-> loc, time_period |-> per, disease_cases |-> 1, temp |-> 25]

Locations == {"A", "B"}

MonthlyPeriods ==
    {Period("YYYYMM", 1998, 1, 0, 0), Period("YYYY-MM", 1998, 2, 0, 0),
     Period("YYYY-MM-DD", 1998, 3, 15, 0), Period("YYYY-MM", 1998, 13, 0, 0),
     Period("text", 0, 0, 0, 0)}

WeeklyPeriods ==
    {Period("YYYY-Www", 2020, 0, 0, 1), Period("YYYY-Www", 2020, 0, 0, 3),
     Period("YYYY-MM-DD", 2020, 1, 8, 0), Period("text", 0, 0, 0, 0)}

RowSeqs(R) == UNION {[1..n -> R] : n \in 0..MaxChapRows}

NamedFrames(pers) ==
    {[columns |-> NamedColumns, rows |-> r] :
        r \in RowSeqs({NamedRow(l, q) : l \in Locations, q \in pers})}

LiteralFrames(pers) ==
    {[columns |-> LiteralColumns, rows |-> r] :
        r \in RowSeqs({LiteralRow(l, q) : l \in Locations, q \in pers})}

Mapping(m) == [mapping |-> TRUE, map |-> m]
NotAMapping == [mapping |-> FALSE, map |-> << >>]

ValidMap ==
    Mapping(("time_period" :> "period") @@ ("location" :> "org_id")
            @@ ("disease_cases" :> "dengue_cases"))
ValidMapPopulation ==
    Mapping(("time_period" :> "period") @@ ("location" :> "org_id")
            @@ ("disease_cases" :> "dengue_cases") @@ ("population" :> "population"))
MissingKeyMap == Mapping(("time_period" :> "period") @@ ("location" :> "org_id"))
MissingColumnMap ==
    Mapping(("time_period" :> "period") @@ ("location" :> "org_id")
            @@ ("disease_cases" :> "missing_cases_col"))
LiteralMap ==
    Mapping(("time_period" :> "time_period") @@ ("location" :> "location")
            @@ ("disease_cases" :> "disease_cases"))
LiteralMissingKeyMap == Mapping(("time_period" :> "time_period") @@ ("location" :> "location"))
LiteralMissingColumnMap ==
    Mapping(("time_period" :> "time_period") @@ ("location" :> "location")
            @@ ("disease_cases" :> "missing_cases_col"))

DefaultDropCols == <<"org_name", "population_year">>

DefaultOpt ==
    [freq |-> "monthly", continuity_policy |-> "error", include_other_cols |-> TRUE,
     value_cols |-> <<"None">>, drop_cols |-> DefaultDropCols, sort |-> TRUE,
     output_path |-> "None"]

ChapCall(df, column_map, opt) ==
    [fn |-> "dataframe_to_chap_csv", arg |-> df, df |-> df, column_map |-> column_map,
     opt |-> opt, done |-> FALSE, result |-> [kind |-> "pending"]]

\* calls that exercise the validation of column_map
ValidationCalls ==
    {ChapCall(df, m, [DefaultOpt EXCEPT !.output_path = o]) :
        df \in NamedFrames(MonthlyPeriods),
        m \in {ValidMap, ValidMapPopulation, MissingKeyMap, MissingColumnMap, NotAMapping},
        o \in {"None", "out.csv"}}
    \cup
    {ChapCall(df, m, [DefaultOpt EXCEPT !.output_path = o]) :
        df \in LiteralFrames(MonthlyPeriods),
        m \in {LiteralMap, LiteralMissingKeyMap, LiteralMissingColumnMap},
        o \in {"None", "out.csv"}}

\* calls that exercise normalization and the continuity policies
ContinuityCalls ==
    {ChapCall(df, ValidMap, [DefaultOpt EXCEPT !.continuity_policy = c]) :
        df \in NamedFrames(MonthlyPeriods), c \in {"error", "warn", "ignore", "other"}}
    \cup
    {ChapCall(df, ValidMap, [DefaultOpt EXCEPT !.freq = "weekly", !.continuity_policy = c]) :
        df \in NamedFrames(WeeklyPeriods), c \in {"error", "warn", "ignore", "other"}}
    \cup
    {ChapCall(df, ValidMap, [DefaultOpt EXCEPT !.freq = "daily"]) :
        df \in NamedFrames(MonthlyPeriods)}

\* calls that exercise the choice and order of the output columns and rows
ColumnCalls ==
    {ChapCall(df, m, [DefaultOpt EXCEPT !.continuity_policy = "ignore", !.include_other_cols = i,
                                        !.value_cols = v, !.drop_cols = d, !.sort = st]) :
        df \in NamedFrames(MonthlyPeriods), m \in {ValidMap, ValidMapPopulation},
        i \in BOOLEAN,
        v \in {<<"None">>, <<"temp">>, <<"precip", "temp">>, <<"missing_col">>},
        d \in {DefaultDropCols, << >>}, st \in BOOLEAN}

InitChap ==
    /\ InitIdle
    /\ call \in ValidationCalls \cup ContinuityCalls \cup ColumnCalls

SpecChap == InitChap /\ [][DataframeToChapCsv]_vars

\* the call _normalize_time_period(series, freq=...)
NormalizeTimePeriod ==
    /\ call.fn = "_normalize_time_period" /\ ~call.done
    /\ call' = [call EXCEPT !.done = TRUE,
                            !.result = normalize_time_period(call.arg, call.freq)]
    /\ UNCHANGED dlvars

MaxSeries == 3

SeriesValues ==
    {Period("YYYYMM", 1998, 1, 0, 0), Period("YYYY-MM", 1998, 2, 0, 0),
     Period("YYYY-MM-DD", 1998, 3, 15, 0), Period("YYYY-MM", 1998, 13, 0, 0),
     Period("YYYY-MM-DD", 1998, 2, 30, 0), Period("text", 0, 0, 0, 0),
     Period("YYYY-Www", 2020, 0, 0, 1)}

InitNormalize ==
    /\ InitIdle
    /\ \E n \in 0..MaxSeries : \E series \in [1..n -> SeriesValues] :
       \E freq \in {"monthly", "weekly", "daily"} :
            call = [fn |-> "_normalize_time_period", arg |-> series, freq |-> freq,
                    done |-> FALSE, result |-> [ok |-> FALSE, exc |-> "pending"]]

SpecNormalize == InitNormalize /\ [][NormalizeTimePeriod]_vars

\* the call list(iter_months(start_year, start_month, end_year, end_month))
IterMonths ==
    /\ call.fn = "iter_months" /\ ~call.done
    /\ call' = [call EXCEPT !.done = TRUE,
                            !.result = iter_months(call.arg[1], call.arg[2], call.arg[3], call.arg[4])]
    /\ UNCHANGED dlvars

MaxIterYears == 2

IterYears == BaseMonth[1]..(BaseMonth[1] + MaxIterYears)

InitIterMonths ==
    /\ InitIdle
    /\ \E sy \in IterYears, ey \in IterYears : \E sm \in 1..12, em \in 1..12 :
            call = [fn |-> "iter_months", arg |-> <<sy, sm, ey, em>>,
                    done |-> FALSE, result |-> << >>]

SpecIterMonths == InitIterMonths /\ [][IterMonths]_vars

\* ------------------------------------------------- data/utils.py netcdf_cache
\* A call of the wrapped CHIRPS get() has positional arguments (start, end), as day
\* numbers, and keyword arguments, a sequence of <<name, value>> in the order given.

\* str(args) + str(kwargs): a tuple prints its values in order, a dict prints its
\* items in insertion order
key_data(a, kwargs) == <<a, kwargs>>

\* hashlib.md5(key_data.encode()).hexdigest()[:10]: a digest stands for the text it
\* was computed from (collisions are not modelled)
key_hash(a, kwargs) == [md5 |-> key_data(a, kwargs)]

\* os.path.join(cache_dir, f"{safe_func_id}_{key_hash}.nc")
cache_path(a, kwargs) ==
    [dirname |-> "cache_dir", func_id |-> "dhis2eo_data_chc_chirps3_daily_get",
     key_hash |-> key_hash(a, kwargs), ext |-> "nc"]

\* chirps3 get(): end_d < start_d raises ValueError
get_raises(a) == a[2] < a[1]

\* the cache file is never found
CacheHitNever(path) == FALSE

\* os.path.exists(path)
CacheHit(path) == Exists(path)

MaxCalls == 3

CacheArgs == {<<1, 2>>, <<2, 2>>, <<2, 1>>}

CacheKwargs ==
    {<< >>,
     <<<<"stage", "final">>, <<"flavor", "rnl">>>>,
     <<<<"flavor", "rnl">>, <<"stage", "final">>>>}

\* one call of wrapper(*args, **kwargs); call.history records the finished calls
NetcdfCacheCall ==
    /\ call.fn = "netcdf_cache" /\ Len(call.history) < MaxCalls
    /\ \E a \in CacheArgs, kwargs \in CacheKwargs :
        LET path == cache_path(a, kwargs)
            n == Len(call.history) + 1
            entry == [args |-> a, kwargs |-> kwargs, path |-> path]
        IN  IF CacheHit(path)
            THEN /\ call' = [call EXCEPT !.history = Append(@,
                                entry @@ [outcome |-> "return", invoked |-> FALSE,
                                          dataset |-> [read_from |-> path, content |-> fs[path]]])]
                 /\ UNCHANGED fs
            ELSE IF get_raises(a)
            THEN /\ call' = [call EXCEPT !.history = Append(@,
                                entry @@ [outcome |-> "ValueError", invoked |-> TRUE,
                                          dataset |-> [read_from |-> path, content |-> Absent]])]
                 /\ UNCHANGED fs
            ELSE /\ fs' = [fs EXCEPT ![path] = [st |-> "complete", gen |-> n]]
                 /\ call' = [call EXCEPT !.history = Append(@,
                                entry @@ [outcome |-> "return", invoked |-> TRUE,
                                          dataset |-> [read_from |-> path, content |-> fs'[path]]])]
    /\ UNCHANGED <<adapter, today, args, run, pc, periods, idx, files, request_ids,
                   results, fs0, jobs, pool, cur, requests, lastPoll, returned>>

InitCache ==
    /\ adapter = "none" /\ today = Date(2025, 3, 8)
    /\ args = [start |-> <<2025, 1>>, end |-> <<2025, 1>>, overwrite |-> FALSE, models |-> << >>]
    /\ run = 1 /\ pc = "idle" /\ idx = 1 /\ periods = << >>
    /\ files = << >> /\ request_ids = << >> /\ results = << >>
    /\ fs = [f \in {cache_path(a, kwargs) : a \in CacheArgs, kwargs \in CacheKwargs} |-> Absent]
    /\ fs0 = fs
    /\ jobs = << >> /\ pool = << >> /\ cur = NoCur
    /\ requests = {} /\ lastPoll = NoPoll /\ returned = << >>
    /\ call = [fn |-> "netcdf_cache", history |-> << >>]

SpecCache == InitCache /\ [][NetcdfCacheCall]_vars

\* ---------------------------------------------- integrations/geopandas.py
\* A name is Python's None or a string, modelled by a label and its length; a
\* feature is a GeoJSON feature with id, properties and geometry.
NoName == [kind |-> "None", label |-> "", length |-> 0]
Str(label, n) == [kind |-> "str", label |-> label, length |-> n]

ShortNameLength == 50

\* name[:50] if name else "Unnamed"
short_name(name) ==
    IF name.kind = "str" /\ name.length > 0
    THEN Str(name.label, IF name.length < ShortNameLength THEN name.length ELSE ShortNameLength)
    ELSE Str("Unnamed", 7)

\* str(date.today())
openingDate == today

country_org_unit(country, country_uid) ==
    [id |-> country_uid, name |-> country, shortName |-> country,
     openingDate |-> openingDate, level |-> 1]

\* the org unit built for one feature; props.get(name_field) is the feature's name
org_unit(feature, uid, country_uid) ==
    [id |-> uid, name |-> feature.properties.name, shortName |-> short_name(feature.properties.name),
     openingDate |-> openingDate, level |-> 2, parent |-> [id |-> country_uid]]

\* the country unit is not skipped
org_sub_units_all(dhis2_org_units) == dhis2_org_units

\* dhis2_org_units[1:]
org_sub_units(dhis2_org_units) == Tail(dhis2_org_units)

\* uids are the values generate_uid() returns, in call order
geodataframe_to_dhis2_org_units(features, country, uids) ==
    LET country_uid == uids[1]
        dhis2_org_units ==
            <<country_org_unit(country, country_uid)>>
            \o [i \in 1..Len(features) |-> org_unit(features[i], uids[i + 1], country_uid)]
        sub_units == org_sub_units(dhis2_org_units)
        zipped == 1..(IF Len(features) < Len(sub_units) THEN Len(features) ELSE Len(sub_units))
    IN  [metadata |-> [organisationUnits |-> dhis2_org_units],
         geojson |-> [type |-> "FeatureCollection",
                      features |-> [i \in 1..Len(features) |->
                                      IF i \in zipped
                                      THEN [features[i] EXCEPT !.id = sub_units[i].id,
                                                               !.properties = sub_units[i]]
                                      ELSE features[i]]]]

MaxFeatures == 2

Uids == {"Abcdefghij0", "Zyxwvutsrq9"}

FeatureNames == {NoName, Str("", 0), Str("Attapu", 6), Str("L", 50), Str("M", 51)}

Features ==
    UNION {[1..n -> {[type |-> "Feature", id |-> "index", properties |-> [name |-> nm],
                      geometry |-> "Polygon"] : nm \in FeatureNames}] : n \in 0..MaxFeatures}

\* the call geodataframe_to_dhis2_org_units(geodataframe, country, name_field); every
\* generate_uid() draws a random id
GeodataframeToDhis2OrgUnits ==
    /\ call.fn = "geodataframe_to_dhis2_org_units" /\ ~call.done
    /\ \E uids \in [1..(Len(call.arg) + 1) -> Uids] :
            call' = [call EXCEPT !.done = TRUE,
                                 !.result = geodataframe_to_dhis2_org_units(call.arg, call.country, uids)]
    /\ UNCHANGED dlvars

InitOrgUnits ==
    /\ InitIdle
    /\ \E features \in Features :
            call = [fn |-> "geodataframe_to_dhis2_org_units", arg |-> features,
                    country |-> Str("Laos", 4), done |-> FALSE,
                    result |-> [metadata |-> [organisationUnits |-> << >>],
                                geojson |-> [type |-> "FeatureCollection", features |-> << >>]]]

SpecOrgUnits == InitOrgUnits /\ [][GeodataframeToDhis2OrgUnits]_vars

\* the polling adapters without interruption, under fair scheduling of the calling
\* thread, the remote service and the pool workers
InitLive == InitEra5 \/ InitCordex

NextLive ==
    \/ Era5Submit \/ Era5SubmitDone \/ Era5Poll \/ Era5Return
    \/ PoolStart \/ PoolFinish \/ RemoteReady
    \/ CordexSubmit \/ CordexSubmitDone \/ CordexPoll
    \/ CordexDownloadZip \/ CordexDownloadDone

MainThread ==
    \/ Era5Submit \/ Era5SubmitDone \/ Era5Poll \/ Era5Return
    \/ CordexSubmit \/ CordexSubmitDone \/ CordexPoll
    \/ CordexDownloadZip \/ CordexDownloadDone

LiveSpec ==
    /\ InitLive /\ [][NextLive]_vars
    /\ WF_vars(MainThread) /\ WF_vars(RemoteReady)
    /\ WF_vars(PoolStart) /\ WF_vars(PoolFinish)

\* ================================================================ claims
Polling == adapter \in {"era5", "cordex"}
Monthly == adapter \in {"era5", "tigge", "seas5"}

\* the save path of a period of the current adapter
SaveFileOf(p) ==
    IF Monthly THEN MonthSaveFile(p)
    ELSE IF adapter = "cordex" THEN CordexOutPath(p)
    ELSE YearSaveFile(p)

RequestedNow(f) == [run |-> run, file |-> f] \in requests

InList(f, l) == \E k \in 1..Len(l) : l[k] = f

\* C1: after an interruption, the rerun with overwrite=False returns only complete
\* files, reuses the files the first run completed without a new request, and does
\* not accept a file that was partly written at the interruption as a cache entry.
C1_ResumeAfterInterruption ==
    (Polling /\ run > 1 /\ pc = "returned") =>
        /\ \A k \in 1..Len(returned) : fs[returned[k]].st = "complete"
        /\ \A f \in DOMAIN fs :
            /\ (fs0[f].st = "complete" /\ InList(f, returned)) => ~RequestedNow(f)
            /\ (fs0[f].st = "partial" /\ InList(f, returned)) => RequestedNow(f)

\* the month of (today minus 3 days) or later
EcmwfIncomplete(p) == TupleGE(p, <<EcmwfLastUpdated.year, EcmwfLastUpdated.month>>)

\* periods the adapter leaves out altogether
Skipped(p) ==
    \/ adapter = "era5" /\ Era5Incomplete(p)
    \/ adapter = "cordex" /\ model_name_to_stub(p.model.rcm) \in SKIP_RCMS

\* periods the adapter fetches whatever the cache holds
Refetched(p) == adapter \in {"tigge", "seas5"} /\ EcmwfIncomplete(p)

SubmitResultNone(f) == \A k \in 1..Len(files) : files[k] = f => request_ids[k] = None

\* C2 as stated: in every adapter, with overwriting off an existing target file means
\* no request, the file unchanged and its path returned; with overwrite=True every
\* period in range is requested.
C2_SkipIfExistsEveryPeriod ==
    pc = "returned" =>
        \A i \in 1..Len(periods) :
            LET f == SaveFileOf(periods[i])
            IN  /\ (~args.overwrite /\ fs0[f].st # "absent") =>
                        /\ ~RequestedNow(f)
                        /\ fs[f] = fs0[f]
                        /\ InList(f, returned)
                        /\ (Polling => SubmitResultNone(f))
                /\ args.overwrite => RequestedNow(f)

\* C2 (amended): the same, for the periods the adapter neither leaves out (ERA5-Land
\* incomplete month, CORDEX skipped RCM) nor refetches regardless of the cache
\* (TIGGE/SEAS5 incomplete month).
C2_SkipIfExists ==
    pc = "returned" =>
        \A i \in 1..Len(periods) :
            LET f == SaveFileOf(periods[i])
            IN  /\ (~args.overwrite /\ fs0[f].st # "absent"
                        /\ ~Skipped(periods[i]) /\ ~Refetched(periods[i])) =>
                        /\ ~RequestedNow(f)
                        /\ fs[f] = fs0[f]
                        /\ InList(f, returned)
                        /\ (Polling => SubmitResultNone(f))
                /\ (args.overwrite /\ ~Skipped(periods[i])) => RequestedNow(f)

C2_Witness ==
    /\ pc = "returned" /\ adapter = "era5" /\ ~args.overwrite
    /\ \E i, j \in 1..Len(periods) :
        /\ ~Skipped(periods[i]) /\ fs0[SaveFileOf(periods[i])].st = "complete"
        /\ ~RequestedNow(SaveFileOf(periods[i]))
        /\ RequestedNow(SaveFileOf(periods[j]))

\* C3: a download starts only in a loop iteration that saw results_ready for that
\* job, no job that was never ready is downloaded, and the loop sleeps only when no
\* remaining job is ready.
C3_DownloadWhenReady ==
    /\ lastPoll.kind = "dispatch" => (lastPoll.wasReady /\ lastPoll.rid \in lastPoll.ready)
    /\ lastPoll.kind = "sleep" => lastPoll.ready = {}
    /\ \A r \in DOMAIN pool : jobs[r].ready
    /\ cur.phase \in {"zip", "extract"} => jobs[cur.rid].ready

C3_Witness ==
    /\ lastPoll.kind = "dispatch" /\ pc = "poll"
    /\ \E i \in 1..Len(results) : results[i].rid # None /\ ~jobs[results[i].rid].ready

NoJobThisRun == \A r \in DOMAIN jobs : jobs[r].run # run

\* C4: with every job eventually ready and every download finishing, the call
\* returns; on return no results entry carries a request id, and a call that
\* submitted nothing returns without having polled.
C4_PollUntilReadyTerminates ==
    /\ <>(pc = "returned")
    /\ [](pc = "returned" =>
            /\ \A i \in 1..Len(results) : results[i].rid = None
            /\ NoJobThisRun => lastPoll.kind = "none")

C4_Witness ==
    /\ pc = "returned" /\ lastPoll.kind = "exit"
    /\ Cardinality(DOMAIN jobs) = 2
    /\ \A k \in 1..Len(returned) : fs[returned[k]] = [st |-> "complete", gen |-> run]

\* the expected ERA5-Land list: the months start..end before the month of
\* (today minus 7 days), ascending, as <prefix>_<YYYY>-<MM>.nc under dirname
ExpectedName(k) ==
    [dirname |-> "dirname", prefix |-> "prefix", year |-> k \div 12,
     mm |-> <<((k % 12) + 1) \div 10, ((k % 12) + 1) % 10>>, ext |-> "nc"]

Min(a, b) == IF a < b THEN a ELSE b

ExpectedMonths(first, last) ==
    IF last < first THEN << >> ELSE [j \in 1..(last - first + 1) |-> ExpectedName(first + j - 1)]

ExpectedEra5 ==
    ExpectedMonths(MonthIndex(args.start),
                   Min(MonthIndex(args.end),
                       MonthIndex(<<Era5LastUpdated.year, Era5LastUpdated.month>>) - 1))

\* C5: ERA5-Land hourly download returns one path per month of start..end that is
\* not skipped as incomplete, chronologically, named <prefix>_<YYYY>-<MM>.nc,
\* whatever the cache held.
C5_Era5ReturnsOnePathPerMonth ==
    (adapter = "era5" /\ pc = "returned") => returned = ExpectedEra5

C5_Witness ==
    /\ adapter = "era5" /\ pc = "returned" /\ Len(returned) = 2
    /\ fs0[returned[1]].st = "complete" /\ ~RequestedNow(returned[1])
    /\ fs0[returned[2]].st = "absent" /\ RequestedNow(returned[2])
    /\ returned[1].year = 2024 /\ returned[1].mm = <<1, 2>> /\ returned[2].year = 2025

PreviousMonth(y, m) == IF m = 1 THEN <<y - 1, 12>> ELSE <<y, m - 1>>

RangeIsPreviousAndCurrentMonth ==
    /\ args.start = PreviousMonth(today.year, today.month)
    /\ args.end = <<today.year, today.month>>

FileMonth(f) == <<f.year, f.mm[1] * 10 + f.mm[2]>>

ExpectedEcmwf == ExpectedMonths(MonthIndex(args.start), MonthIndex(args.end))

IsZeroValue(v) == v.ip = 0 /\ \A i \in 1..Len(v.frac) : v.frac[i] = 0
IsWholeValue(v) == \A i \in 1..Len(v.frac) : v.frac[i] = 0

HasChar(str, c) == \E i \in 1..Len(str) : str[i] = c
PointAt(str) == CHOOSE i \in 1..Len(str) : str[i] = "."
DecimalChars == SeqToSet(DigitChars) \cup {"-", "."}

\* a decimal string: no exponent, at most 10 fractional digits, no trailing zero in
\* the fraction, no trailing decimal point
CleanDecimal(str) ==
    /\ str # << >>
    /\ \A i \in 1..Len(str) : str[i] \in DecimalChars
    /\ str[Len(str)] # "."
    /\ HasChar(str, ".") => (Len(str) - PointAt(str) <= 10 /\ str[Len(str)] # "0")

\* C8: for every finite number format_value_for_dhis2 gives a decimal string with no
\* exponent, at most 10 fractional digits, no trailing zeros and no trailing point;
\* a whole number has no decimal point, zero is "0"; NaN is returned unchanged.
C8_FormatValueDecimalString ==
    (call.fn = "format_value_for_dhis2" /\ call.done) =>
        IF isna(call.arg) THEN call.result = call.arg
        ELSE /\ CleanDecimal(call.result)
             /\ IsWholeValue(call.arg) => ~HasChar(call.result, ".")
             /\ IsZeroValue(call.arg) => call.result = <<"0">>

NotNaIndexes(df) == {i \in 1..Len(df) : df[i].value # NaN}

NoExponent(str) == \A i \in 1..Len(str) : str[i] \in DecimalChars

\* C9: dataframe_to_dhis2_json returns {"dataValues": records} with one record per
\* input row whose value is not NaN, in row order, each with the keys orgUnit,
\* period, value, dataElement, the given data element id, the row's org unit and a
\* value string without scientific notation; the input frame is not modified.
C9_Dhis2JsonRecords ==
    (call.fn = "dataframe_to_dhis2_json" /\ call.done /\ call.result.kind = "return") =>
        LET records == call.result.value.dataValues
        IN  /\ DOMAIN call.result.value = {"dataValues"}
            /\ Len(records) = Cardinality(NotNaIndexes(call.arg))
            /\ \A k \in 1..Len(records) :
                /\ DOMAIN records[k] = {"orgUnit", "period", "value", "dataElement"}
                /\ records[k].dataElement = "DE001"
                /\ records[k].value # NaN /\ records[k].value # << >>
                /\ NoExponent(records[k].value)
                /\ \E i \in NotNaIndexes(call.arg) :
                    /\ Cardinality({j \in NotNaIndexes(call.arg) : j < i}) = k - 1
                    /\ records[k].orgUnit = call.arg[i].org_unit
            /\ call.df = call.arg

C9_Witness ==
    /\ call.fn = "dataframe_to_dhis2_json" /\ call.done /\ call.result.kind = "return"
    /\ Len(call.arg) = 2 /\ call.arg[1].value = NaN /\ call.arg[2].value # NaN
    /\ Len(call.result.value.dataValues) = 1
    /\ call.result.value.dataValues[1].orgUnit = call.arg[2].org_unit

ChapDone == call.fn = "dataframe_to_chap_csv" /\ call.done

LacksRequiredKey(column_map) ==
    \E k \in {"time_period", "location", "disease_cases"} : k \notin DOMAIN column_map.map

MapsToMissingColumn(column_map, df) ==
    \E k \in DOMAIN column_map.map : \A j \in 1..Len(df.columns) : df.columns[j] # column_map.map[k]

NothingProduced == call.result.value = "none" /\ call.result.written = "nothing"

\* C10: dataframe_to_chap_csv raises TypeError when column_map is not a mapping,
\* KeyError when it lacks a required key or maps to a column the frame does not
\* have; then no CSV text is returned and nothing is written to output_path.
C10_ChapInputValidation ==
    ChapDone =>
        /\ ~call.column_map.mapping =>
            (call.result.kind = "raise" /\ call.result.exc = "TypeError" /\ NothingProduced)
        /\ (call.column_map.mapping /\ LacksRequiredKey(call.column_map)) =>
            (call.result.kind = "raise" /\ call.result.exc = "KeyError" /\ NothingProduced)
        /\ (call.column_map.mapping /\ MapsToMissingColumn(call.column_map, call.arg)) =>
            (call.result.kind = "raise" /\ call.result.exc = "KeyError" /\ NothingProduced)

C10_Witness ==
    /\ ChapDone /\ call.column_map = LiteralMissingKeyMap
    /\ call.opt.output_path = "out.csv"
    /\ Len(call.arg.rows) = 2
    /\ \A i \in 1..2 : call.arg.rows[i].time_period = Period("YYYY-MM", 1998, 2, 0, 0)
    /\ call.result.kind = "raise" /\ call.result.exc = "KeyError"
    /\ call.result.written = "nothing"

ChapReturned == ChapDone /\ call.result.kind = "return"

\* the CSV of a finished call, returned as text or written to output_path
ChapCsv == IF call.opt.output_path = "None" THEN call.result.value ELSE call.result.written

\* the name a column of the input frame has in the output
OutputName(c, column_map) ==
    IF \E k \in DOMAIN column_map.map : column_map.map[k] = c
    THEN CHOOSE k \in DOMAIN column_map.map : column_map.map[k] = c
    ELSE c

\* the input frame's columns under their output names, in DataFrame order
FrameOrder(df, column_map) == [j \in 1..Len(df.columns) |-> OutputName(df.columns[j], column_map)]

ReservedHeader(column_map) ==
    <<"time_period", "location", "disease_cases">>
    \o (IF "population" \in DOMAIN column_map.map THEN <<"population">> ELSE << >>)

IsCovariate(c, df, column_map, opt) ==
    /\ ~InList(c, ReservedHeader(column_map))
    /\ ~InList(c, opt.drop_cols)
    /\ IF opt.value_cols # <<"None">> THEN InList(c, opt.value_cols)
       ELSE opt.include_other_cols

\* C11: the header is time_period, location, disease_cases, then population only if
\* column_map maps it, then the covariates in their DataFrame order; the covariates
\* are value_cols when given, else all other columns when include_other_cols, else
\* none; no column of drop_cols is in the header.
C11_ChapOutputColumns ==
    ChapReturned =>
        /\ ChapCsv.header =
                ReservedHeader(call.column_map)
                \o SelectSeq(FrameOrder(call.arg, call.column_map),
                             LAMBDA c : IsCovariate(c, call.arg, call.column_map, call.opt))
        /\ \A j \in 1..Len(ChapCsv.header) : ~InList(ChapCsv.header[j], call.opt.drop_cols)

\* in a CSV line the first cell is time_period and the second is location
LineLocation(line) == line[2]
LinePeriod(line) == line[1]

LocationBefore(a, b) == a = "A" /\ b = "B"

PeriodNotAfter(p, q) ==
    \/ p.year < q.year
    \/ p.year = q.year /\ p.month < q.month
    \/ p.year = q.year /\ p.month = q.month /\ p.week <= q.week

RowOrders(n) == {f \in [1..n -> 1..n] : \A i, j \in 1..n : f[i] = f[j] => i = j}

Reordered(df, f) == [df EXCEPT !.rows = [i \in 1..Len(df.rows) |-> df.rows[f[i]]]]

NoDuplicateKey(lines) ==
    \A i, j \in 1..Len(lines) :
        (LineLocation(lines[i]) = LineLocation(lines[j]) /\ LinePeriod(lines[i]) = LinePeriod(lines[j]))
            => i = j

\* C12: with sort=True the data rows are ordered by location ascending and, within
\* a location, by normalized time_period ascending; any reordering of the input
\* rows (no duplicate (location, time_period)) gives the same CSV.
C12_ChapSortDeterministic ==
    (ChapReturned /\ call.opt.sort) =>
        LET lines == ChapCsv.lines
        IN  /\ \A i, j \in 1..Len(lines) :
                    i < j =>
                        \/ LocationBefore(LineLocation(lines[i]), LineLocation(lines[j]))
                        \/ /\ LineLocation(lines[i]) = LineLocation(lines[j])
                           /\ PeriodNotAfter(LinePeriod(lines[i]), LinePeriod(lines[j]))
            /\ NoDuplicateKey(lines) =>
                    \A f \in RowOrders(Len(call.arg.rows)) :
                        dataframe_to_chap_csv(Reordered(call.arg, f), call.column_map, call.opt)
                            = call.result

C12_Witness ==
    /\ ChapReturned /\ call.opt.sort /\ Len(call.arg.rows) = 2
    /\ call.arg.columns = NamedColumns
    /\ call.arg.rows[1].org_id = "B" /\ call.arg.rows[2].org_id = "A"
    /\ call.arg.rows[1].period = Period("YYYYMM", 1998, 1, 0, 0)
    /\ call.arg.rows[2].period = Period("YYYY-MM-DD", 1998, 3, 15, 0)
    /\ ChapCsv.lines[1][2] = "A" /\ ChapCsv.lines[1][1] = Period("YYYY-MM", 1998, 3, 0, 0)
    /\ ChapCsv.lines[2][2] = "B" /\ ChapCsv.lines[2][1] = Period("YYYY-MM", 1998, 1, 0, 0)

ColumnMapAccepted ==
    /\ call.column_map.mapping
    /\ ~LacksRequiredKey(call.column_map)
    /\ ~MapsToMissingColumn(call.column_map, call.arg)

\* the input cell that column_map names for a Chap field
InputCell(row, field) == row[call.column_map.map[field]]

\* every time period of the input is a valid period of the frequency
PeriodsValid ==
    LET cells == {InputCell(call.arg.rows[i], "time_period") : i \in 1..Len(call.arg.rows)}
    IN  \/ /\ call.opt.freq = "monthly"
           /\ \A v \in cells : v.form \in {"YYYYMM", "YYYY-MM", "YYYY-MM-DD"} /\ v.month \in 1..12
        \/ /\ call.opt.freq = "weekly"
           /\ \/ \A v \in cells : v.form = "YYYY-Www" /\ v.week \in 1..52
              \/ \A v \in cells : v.form = "YYYY-MM-DD" /\ v.month \in 1..12 /\ v.day \in 1..28

\* the place of an input period on the axis of months, or of ISO weeks
PeriodNumber(v) ==
    IF call.opt.freq = "monthly" THEN 12 * v.year + v.month
    ELSE IF v.form = "YYYY-Www" THEN WeekStart(v) \div 7
    ELSE LET iso == isocalendar(v.year, v.month, v.day)
         IN  WeekStart([year |-> iso.year, week |-> iso.week]) \div 7

\* some location lacks a period between two of its own periods
HasGap ==
    \E i, j \in 1..Len(call.arg.rows) :
        /\ InputCell(call.arg.rows[i], "location") = InputCell(call.arg.rows[j], "location")
        /\ \E n \in PeriodNumber(InputCell(call.arg.rows[i], "time_period")) + 1
                    .. PeriodNumber(InputCell(call.arg.rows[j], "time_period")) - 1 :
                \A k \in 1..Len(call.arg.rows) :
                    InputCell(call.arg.rows[k], "location") = InputCell(call.arg.rows[i], "location")
                        => PeriodNumber(InputCell(call.arg.rows[k], "time_period")) # n

\* C13: with continuity_policy "error", on a call that passes the column_map
\* validation and whose periods are valid, ValueError is raised exactly when some
\* location misses a period between its earliest and latest one (months or ISO
\* weeks), each location judged on its own; when raised, nothing is returned or
\* written.
C13_ContinuityError ==
    (ChapDone /\ call.opt.continuity_policy = "error" /\ ColumnMapAccepted /\ PeriodsValid) =>
        /\ (call.result.kind = "raise" /\ call.result.exc = "ValueError") <=> HasGap
        /\ HasGap => NothingProduced

C13_Witness ==
    /\ ChapDone /\ call.opt.continuity_policy = "error" /\ call.column_map = ValidMap
    /\ call.opt.output_path = "out.csv" /\ Len(call.arg.rows) = 2
    /\ \A i \in 1..2 : call.arg.rows[i].org_id = "A"
    /\ call.arg.rows[1].period = Period("YYYY-MM-DD", 1998, 3, 15, 0)
    /\ call.arg.rows[2].period = Period("YYYYMM", 1998, 1, 0, 0)
    /\ call.result.kind = "raise" /\ call.result.exc = "ValueError"
    /\ call.result.written = "nothing"

\* the same call made with continuity_policy="ignore"
WithIgnore ==
    dataframe_to_chap_csv(call.arg, call.column_map,
                          [call.opt EXCEPT !.continuity_policy = "ignore"])

NoValueCols == call.opt.value_cols = <<"None">>

\* C14: on input with gaps, "warn" emits a UserWarning and returns the CSV, the
\* same CSV as "ignore" returns; "ignore" neither raises nor warns because of gaps;
\* any other continuity_policy raises ValueError.
C14_ContinuityWarnIgnore ==
    (ChapDone /\ ColumnMapAccepted) =>
        /\ (call.opt.continuity_policy = "warn" /\ PeriodsValid /\ HasGap /\ NoValueCols) =>
                /\ call.result.kind = "return" /\ call.result.warned
                /\ WithIgnore.kind = "return"
                /\ call.result.value = WithIgnore.value
                /\ call.result.written = WithIgnore.written
        /\ (call.opt.continuity_policy = "ignore" /\ PeriodsValid /\ NoValueCols) =>
                call.result.kind = "return" /\ ~call.result.warned
        /\ call.opt.continuity_policy \notin {"error", "warn", "ignore"} =>
                call.result.kind = "raise" /\ call.result.exc = "ValueError"

C14_Witness ==
    /\ ChapDone /\ call.opt.continuity_policy = "warn" /\ call.opt.freq = "weekly"
    /\ Len(call.arg.rows) = 2
    /\ \A i \in 1..2 : call.arg.rows[i].org_id = "B"
    /\ call.arg.rows[1].period = Period("YYYY-Www", 2020, 0, 0, 1)
    /\ call.arg.rows[2].period = Period("YYYY-Www", 2020, 0, 0, 3)
    /\ call.result.kind = "return" /\ call.result.warned
    /\ Len(call.result.value.lines) = 2

\* the Chap time_period of an input period
NormalizedPeriod(v) ==
    IF call.opt.freq = "monthly" THEN Period("YYYY-MM", v.year, v.month, 0, 0)
    ELSE IF v.form = "YYYY-Www" THEN v
    ELSE LET iso == isocalendar(v.year, v.month, v.day)
         IN  Period("YYYY-Www", iso.year, 0, 0, iso.week)

\* C15: a successful dataframe_to_chap_csv emits exactly one data row per input
\* row, each with the input row's location and normalized time_period (no row is
\* added for a missing period, none is removed), and leaves the input frame as it was.
C15_ChapNoImputation ==
    ChapReturned =>
        LET lines == ChapCsv.lines
            rows == call.arg.rows
        IN  /\ Len(lines) = Len(rows)
            /\ \E f \in RowOrders(Len(rows)) :
                    \A i \in 1..Len(rows) :
                        /\ LineLocation(lines[i]) = InputCell(rows[f[i]], "location")
                        /\ LinePeriod(lines[i]) = NormalizedPeriod(InputCell(rows[f[i]], "time_period"))
            /\ call.df = call.arg

C15_Witness ==
    /\ ChapReturned /\ call.opt.continuity_policy = "warn" /\ call.opt.freq = "monthly"
    /\ Len(call.arg.rows) = 2
    /\ \A i \in 1..2 : call.arg.rows[i].org_id = "A"
    /\ call.arg.rows[1].period = Period("YYYYMM", 1998, 1, 0, 0)
    /\ call.arg.rows[2].period = Period("YYYY-MM-DD", 1998, 3, 15, 0)
    /\ call.result.warned
    /\ Len(call.result.value.lines) = 2
    /\ call.result.value.lines[2][1] = Period("YYYY-MM", 1998, 3, 0, 0)
    /\ call.df = call.arg

NormalizeDone(freq) == call.fn = "_normalize_time_period" /\ call.done /\ call.freq = freq

\* the value is YYYYMM, YYYY-MM or a date
MonthLike(v) == v.form \in {"YYYYMM", "YYYY-MM"} \/ ValidDate(v)

\* C16: _normalize_time_period with freq="monthly" accepts a series mixing YYYYMM,
\* YYYY-MM and date-like values and maps each element to its YYYY-MM month,
\* keeping order and length.
C16_NormalizeMonthlyMixed ==
    (NormalizeDone("monthly") /\ \A i \in 1..Len(call.arg) : MonthLike(call.arg[i])) =>
        /\ call.result.ok
        /\ Len(call.result.value) = Len(call.arg)
        /\ \A i \in 1..Len(call.arg) :
                call.result.value[i] = Period("YYYY-MM", call.arg[i].year, call.arg[i].month, 0, 0)

C16_Witness ==
    /\ NormalizeDone("monthly")
    /\ call.arg = <<Period("YYYYMM", 1998, 1, 0, 0), Period("YYYY-MM", 1998, 2, 0, 0),
                    Period("YYYY-MM-DD", 1998, 3, 15, 0)>>
    /\ call.result.ok
    /\ call.result.value = <<Period("YYYY-MM", 1998, 1, 0, 0), Period("YYYY-MM", 1998, 2, 0, 0),
                             Period("YYYY-MM", 1998, 3, 0, 0)>>

\* the value names a month 01..12, as YYYYMM, YYYY-MM or a date
ValidMonthPeriod(v) == MonthLike(v) /\ v.month \in 1..12

\* C17: _normalize_time_period with freq="monthly" raises ValueError whenever an
\* element is not a valid month period (month outside 01..12, non-date text);
\* every element of a returned series is YYYY-MM with month in 01..12.
C17_NormalizeMonthlyRejectsInvalid ==
    NormalizeDone("monthly") =>
        /\ (\E i \in 1..Len(call.arg) : ~ValidMonthPeriod(call.arg[i])) =>
                (~call.result.ok /\ call.result.exc = "ValueError")
        /\ call.result.ok =>
                \A i \in 1..Len(call.result.value) :
                    /\ call.result.value[i].form = "YYYY-MM"
                    /\ call.result.value[i].month \in 1..12

\* (year, month) pairs compared as Python compares tuples
MonthOrdinal(y, m) == 100 * y + m

\* C18: iter_months yields every (year, month) with start <= (year, month) <= end,
\* once each and in strictly increasing order, month always in 1..12, and nothing
\* when the start is after the end.
C18_IterMonthsInclusiveRange ==
    (call.fn = "iter_months" /\ call.done) =>
        LET lo == MonthOrdinal(call.arg[1], call.arg[2])
            hi == MonthOrdinal(call.arg[3], call.arg[4])
            out == call.result
        IN  /\ \A k \in 1..Len(out) : out[k][2] \in 1..12
            /\ \A k \in 1..(Len(out) - 1) :
                    MonthOrdinal(out[k][1], out[k][2]) < MonthOrdinal(out[k + 1][1], out[k + 1][2])
            /\ \A y \in (call.arg[1] - 1)..(call.arg[3] + 1) : \A m \in 1..12 :
                    (lo <= MonthOrdinal(y, m) /\ MonthOrdinal(y, m) <= hi)
                        <=> (\E k \in 1..Len(out) : out[k] = <<y, m>>)
            /\ lo > hi => out = << >>

C18_Witness ==
    /\ call.fn = "iter_months" /\ call.done
    /\ call.arg = <<2024, 11, 2025, 2>>
    /\ call.result = <<<<2024, 11>>, <<2024, 12>>, <<2025, 1>>, <<2025, 2>>>>

\* submit() of the CORDEX adapter has returned in the current run
CordexSubmitted == adapter = "cordex" /\ pc \in {"poll", "download", "returned"}

\* the entries of submit()'s list for a model whose year block contains year y
EntriesCovering(model, y) ==
    {k \in 1..Len(files) :
        /\ files[k].gcm = model.gcm /\ files[k].rcm = model.rcm
        /\ files[k].start_year <= y /\ y <= files[k].end_year}

\* C19: CORDEX submit returns, for every requested model whose RCM is not in
\* SKIP_RCMS and every year of start_year..end_year (within 2006..2095), exactly one
\* (file, job id) entry whose year block contains the year; the job id is None for
\* a cached file and otherwise the request id of the entry's own job.
C19_CordexSubmitCoversYears ==
    CordexSubmitted =>
        /\ \A m \in 1..Len(args.models) :
                model_name_to_stub(args.models[m].rcm) \notin SKIP_RCMS =>
                    \A y \in args.start[1]..args.end[1] :
                        (2006 <= y /\ y <= 2095) =>
                            Cardinality(EntriesCovering(args.models[m], y)) = 1
        /\ Len(request_ids) = Len(files)
        /\ \A k \in 1..Len(files) :
                IF ~args.overwrite /\ fs0[files[k]].st # "absent"
                THEN request_ids[k] = None
                ELSE /\ request_ids[k] \in DOMAIN jobs
                     /\ jobs[request_ids[k]].file = files[k]
                     /\ jobs[request_ids[k]].run = run

\* the positions of submit()'s list that hold request id r
EntriesOf(r) == {k \in 1..Len(request_ids) : request_ids[k] = r}

\* every work item of the pool belongs to one job of this run, carries the path of
\* that job's month, was submitted once, and its results entry is (path, None)
DispatchedOnce ==
    \A r \in DOMAIN pool :
        /\ ~pool[r].again
        /\ Cardinality(EntriesOf(r)) = 1
        /\ jobs[r].run = run /\ jobs[r].file = pool[r].file
        /\ \A k \in EntriesOf(r) :
                /\ files[k] = pool[r].file
                /\ pc # "interrupted" => results[k] = [file |-> files[k], rid |-> None]

CachedNeverDispatched ==
    \A k \in 1..Len(request_ids) :
        request_ids[k] = None => \A r \in DOMAIN pool : pool[r].file # files[k]

AllDispatched ==
    \A k \in 1..Len(request_ids) : request_ids[k] # None => request_ids[k] \in DOMAIN pool

\* a step gives at most one job to the pool, a ready one, and clears its entry
DispatchStep ==
    LET new == DOMAIN pool' \ DOMAIN pool
    IN  /\ Cardinality(new) <= 1
        /\ \A r \in new :
                /\ jobs[r].ready
                /\ \E k \in 1..Len(results) :
                        /\ results[k] = [file |-> pool'[r].file, rid |-> r]
                        /\ results'[k] = [file |-> pool'[r].file, rid |-> None]

\* C20: in every run of ERA5-Land download each request id returned by submit is
\* handed to download_to_path exactly once with the path of its own month, at most
\* one job per loop iteration, its results entry becoming (path, None) in that
\* iteration; entries of cached months are never dispatched.
C20_Era5EachJobOnce ==
    /\ [](adapter = "era5" =>
            /\ DispatchedOnce
            /\ CachedNeverDispatched
            /\ pc = "returned" => AllDispatched)
    /\ [][adapter = "era5" => DispatchStep]_vars

C20_Witness ==
    /\ adapter = "era5" /\ pc = "returned" /\ Len(request_ids) = 2
    /\ request_ids[1] = None /\ request_ids[2] # None
    /\ DOMAIN pool = {request_ids[2]}
    /\ pool[request_ids[2]] = [file |-> files[2], st |-> "done", again |-> FALSE]
    /\ returned = files

\* a job was submitted in the current run
SubmittedThisRun == \E k \in 1..Len(request_ids) : request_ids[k] # None

\* C21: when at least one job was submitted, ERA5-Land download returns only after
\* every download task given to the thread pool has finished; the pool is shut
\* down after the last job was dispatched, and no task is queued or running when
\* the list of paths is returned.
C21_Era5WaitsForDownloads ==
    (adapter = "era5" /\ SubmittedThisRun) =>
        /\ pc \in {"shutdown", "returned"} =>
                /\ \A k \in 1..Len(results) : results[k].rid = None
                /\ AllDispatched
        /\ pc = "returned" =>
                /\ pool # << >>
                /\ \A r \in DOMAIN pool : pool[r].st = "done"
                /\ returned = files

C21_Witness ==
    /\ adapter = "era5" /\ pc = "returned" /\ Len(request_ids) = 2
    /\ request_ids[1] # None /\ request_ids[2] # None
    /\ DOMAIN pool = {request_ids[1], request_ids[2]}
    /\ \A r \in DOMAIN pool : pool[r].st = "done"
    /\ \A k \in 1..2 : fs[files[k]] = [st |-> "complete", gen |-> run]

CacheCalls == IF call.fn = "netcdf_cache" THEN call.history ELSE << >>

\* two calls pass equal positional arguments and equal keyword arguments
SameArguments(c, e) == c.args = e.args /\ SeqToSet(c.kwargs) = SeqToSet(e.kwargs)

\* two calls pass equal arguments, the keyword arguments in the same order
SameArgumentsInOrder(c, e) == c.args = e.args /\ c.kwargs = e.kwargs

\* the first call returns what is read back from the cache file it wrote; a call
\* whose wrapped function raises propagates the error and leaves no cache file
FirstCallAndErrors(h) ==
    \A j \in 1..Len(h) :
        /\ (h[j].invoked /\ h[j].outcome = "return") =>
                /\ fs[h[j].path].st = "complete"
                /\ h[j].dataset = [read_from |-> h[j].path, content |-> fs[h[j].path]]
        /\ get_raises(h[j].args) =>
                /\ h[j].outcome = "ValueError"
                /\ \A e \in 1..Len(h) : SameArguments(h[e], h[j]) => fs[h[e].path] = Absent

\* C22 as stated: after one successful call any later call with the same positional
\* and keyword arguments returns the dataset read from the same cache file without
\* invoking the wrapped function; the first call returns the dataset re-read from
\* the file; an error of the wrapped function propagates and creates no cache file.
C22_NetcdfCacheSameArguments ==
    LET h == CacheCalls
    IN  /\ \A i, j \in 1..Len(h) :
                (i < j /\ h[i].outcome = "return" /\ SameArguments(h[i], h[j])) =>
                    /\ ~h[j].invoked
                    /\ h[j].outcome = "return"
                    /\ h[j].dataset = h[i].dataset
        /\ FirstCallAndErrors(h)

\* C22 amended: the same, for a later call that passes the same arguments with the
\* keyword arguments in the same order.
C22_NetcdfCacheSameCall ==
    LET h == CacheCalls
    IN  /\ \A i, j \in 1..Len(h) :
                (i < j /\ h[i].outcome = "return" /\ SameArgumentsInOrder(h[i], h[j])) =>
                    /\ ~h[j].invoked
                    /\ h[j].outcome = "return"
                    /\ h[j].dataset = h[i].dataset
        /\ FirstCallAndErrors(h)

C22_Witness ==
    /\ call.fn = "netcdf_cache" /\ Len(call.history) = 3
    /\ \A j \in 1..2 :
            /\ call.history[j].args = <<1, 2>>
            /\ call.history[j].kwargs = <<<<"stage", "final">>, <<"flavor", "rnl">>>>
    /\ call.history[1].invoked /\ ~call.history[2].invoked
    /\ call.history[2].dataset = call.history[1].dataset
    /\ call.history[3].args = <<2, 1>> /\ call.history[3].outcome = "ValueError"
    /\ fs[call.history[3].path] = Absent

\* a date as a number that grows with the calendar
DateNumber(dt) == 10000 * dt.year + 100 * dt.month + dt.day

\* C23: fetch_month of TIGGE and SEAS5 requests the 1st of the month up to
\* min(last day of the month, last_updated_date): the requested end date is never
\* after last_updated_date nor after the month's last day, and the start date is
\* the 1st of the month.
C23_FetchMonthDateRange ==
    (adapter \in {"tigge", "seas5"} /\ pc = "write") =>
        LET month == FileMonth(cur.file)
            month_end == Date(month[1], month[2], monthrange(month[1], month[2]))
            last_updated_date == timedelta_sub(today, 3)
        IN  /\ cur.request.fromdate = Date(month[1], month[2], 1)
            /\ DateNumber(cur.request.todate) <= DateNumber(last_updated_date)
            /\ DateNumber(cur.request.todate) <= DateNumber(month_end)
            /\ cur.request.todate \in {month_end, last_updated_date}

C23_Witness ==
    /\ adapter = "seas5" /\ pc = "write" /\ today = Date(2025, 3, 8)
    /\ FileMonth(cur.file) = <<2025, 3>>
    /\ cur.request = [fromdate |-> Date(2025, 3, 1), todate |-> Date(2025, 3, 5)]

OrgUnitsDone == call.fn = "geodataframe_to_dhis2_org_units" /\ call.done

\* C24: for N features the metadata holds N+1 organisation units, the first the
\* only level-1 (country) unit, the other N level-2 units in feature order with
\* the country unit's id as parent id; in the GeoJSON the i-th feature's id is the
\* id of the i-th level-2 unit and its properties are that unit's attributes.
C24_OrgUnitsPerFeature ==
    OrgUnitsDone =>
        LET units == call.result.metadata.organisationUnits
            feats == call.result.geojson.features
            N == Len(call.arg)
        IN  /\ Len(units) = N + 1
            /\ units[1].level = 1 /\ units[1].name = call.country
            /\ Len(feats) = N
            /\ \A i \in 1..N :
                    /\ units[i + 1].level = 2
                    /\ units[i + 1].parent.id = units[1].id
                    /\ units[i + 1].name = call.arg[i].properties.name
                    /\ feats[i].id = units[i + 1].id
                    /\ feats[i].properties = units[i + 1]
                    /\ feats[i].geometry = call.arg[i].geometry

C24_Witness ==
    /\ OrgUnitsDone /\ Len(call.arg) = 2
    /\ call.arg[1].properties.name = Str("M", 51) /\ call.arg[2].properties.name = NoName
    /\ Len(call.result.metadata.organisationUnits) = 3
    /\ call.result.metadata.organisationUnits[2].shortName = Str("M", 50)
    /\ call.result.metadata.organisationUnits[3].shortName = Str("Unnamed", 7)
    /\ call.result.geojson.features[2].id = call.result.metadata.organisationUnits[3].id
    /\ call.result.metadata.organisationUnits[3].id # call.result.metadata.organisationUnits[1].id

====
